---- MODULE Spec2Model ----
(***************************************************************************)
(* xander-draw-mcp: the ingest server's scene store and broadcaster        *)
(* (server/index.ts), the shape compiler (converters/shapes) and the       *)
(* fallback flowchart pipeline (converters/mermaid.ts).                    *)
(*                                                                         *)
(* JavaScript values are written as records.  An object is a record whose  *)
(* DOMAIN is the set of its own properties, so a missing property is a     *)
(* missing field; `undefined` and `null` are the records Undefined and     *)
(* JsNull; an array is Arr(s) for a sequence s.                            *)
(***************************************************************************)
EXTENDS Integers, Sequences, FiniteSets, TLC

\* ------------------------------------------------------------------ bounds
MaxPending == 1     \* requests suspended in the converter at the same time
MaxShapes == 2      \* descriptors in a list handed to the shape compiler
MaxLines == 3       \* lines of a flowchart text after its header
MaxSceneLen == 2    \* elements a scene built through the REST API may hold

\* --------------------------------------------------------- JavaScript values
Undefined == [js |-> "undefined"]
JsNull == [js |-> "null"]
Arr(s) == [js |-> "array", items |-> s]
EmptyObject == [js |-> "object"]

Has(o, f) == f \in DOMAIN o
\* o.f ?? dflt, for a property that is never null when present
Get(o, f, dflt) == IF Has(o, f) THEN o[f] ELSE dflt
\* a string property used as a condition: missing and "" are falsy
TruthyStr(o, f) == Has(o, f) /\ o[f] # ""
IsArray(v) == Has(v, "js") /\ v.js = "array"
\* reading a property of undefined or null throws a TypeError
IsNullish(v) == Has(v, "js") /\ v.js \in {"undefined", "null"}

\* uuidv4() returns an identifier that nothing in existence carries.  `used`
\* is the set of identifiers in existence (those of the scene the server
\* holds and those handed out earlier in the same call); the new one is named
\* by the least index not in it, so that two scenes that differ only in the
\* names of generated identifiers are one state.
UuidName(k) == "u" \o ToString(k)
uuidv4(used) ==
  UuidName(CHOOSE k \in 1..(Cardinality(used) + 1) :
             /\ UuidName(k) \notin used
             /\ \A j \in 1..(k - 1) : UuidName(j) \in used)

\* ------------------------------------------------------------ shape compiler
\* Style fields (colours, seed, version, ...) carry no behaviour and are left
\* out of the element records; geometry, identity and bindings are kept.
\* boundElements: null is the empty sequence, else the bound texts' ids.
NoId == "null"

baseElement(shape, used) ==
  [id |-> IF TruthyStr(shape, "id") THEN shape.id ELSE uuidv4(used),
   x |-> Get(shape, "x", 0),
   y |-> Get(shape, "y", 0),
   width |-> Get(shape, "width", 100),
   height |-> Get(shape, "height", 100),
   boundElements |-> << >>]

\* the identifiers in existence once el has been made
withId(used, el) == used \cup {el.id}

createBoundText(container, text, shape, used) ==
  [id |-> uuidv4(used),
   type |-> "text",
   x |-> container.x + 10,
   y |-> container.y + (container.height \div 2) - 10,
   width |-> container.width - 20,
   height |-> 20,
   boundElements |-> << >>,
   text |-> text,
   containerId |-> container.id]

\* a tail that returns the container without the bound text's id in its
\* boundElements
withLabelUnlisted(el, shape, used) ==
  IF TruthyStr(shape, "label")
    THEN LET textEl == createBoundText(el, shape.label, shape,
                                       withId(used, el))
         IN [els |-> <<el, textEl>>,
             used |-> withId(withId(used, el), textEl)]
    ELSE [els |-> <<el>>, used |-> withId(used, el)]

\* the tail shared by createRectangle, createEllipse, createDiamond and
\* createArrow: results = [el], plus the bound text when shape.label is truthy
withLabel(el, shape, used) ==
  IF TruthyStr(shape, "label")
    THEN LET textEl == createBoundText(el, shape.label, shape,
                                       withId(used, el))
         IN [els |-> << [el EXCEPT !.boundElements = <<textEl.id>>], textEl >>,
             used |-> withId(withId(used, el), textEl)]
    ELSE [els |-> <<el>>, used |-> withId(used, el)]

createRectangle(shape, used) ==
  withLabel(baseElement(shape, used) @@ [type |-> "rectangle"], shape, used)

createEllipse(shape, used) ==
  withLabel(baseElement(shape, used) @@ [type |-> "ellipse"], shape, used)

createDiamond(shape, used) ==
  withLabel(baseElement(shape, used) @@ [type |-> "diamond"], shape, used)

createText(shape, used) ==
  LET t == IF TruthyStr(shape, "text") THEN shape.text
           ELSE IF TruthyStr(shape, "label") THEN shape.label ELSE ""
      el == baseElement(shape, used) @@
            [type |-> "text", text |-> t, containerId |-> NoId]
  IN [els |-> <<el>>, used |-> withId(used, el)]

defaultPoints(shape) ==
  << <<0, 0>>, <<Get(shape, "width", 100), Get(shape, "height", 0)>> >>

createArrow(shape, used) ==
  withLabel(baseElement(shape, used) @@
            [type |-> "arrow",
             points |-> Get(shape, "points", defaultPoints(shape)),
             startBinding |-> IF TruthyStr(shape, "startBinding")
                                THEN shape.startBinding ELSE NoId,
             endBinding |-> IF TruthyStr(shape, "endBinding")
                              THEN shape.endBinding ELSE NoId],
            shape, used)

createLine(shape, used) ==
  LET el == baseElement(shape, used) @@
            [type |-> "line",
             points |-> Get(shape, "points", defaultPoints(shape)),
             startBinding |-> NoId, endBinding |-> NoId]
  IN [els |-> <<el>>, used |-> withId(used, el)]

\* a switch whose default branch draws the descriptor as a rectangle
compileOneDefaultRectangle(shape, used) ==
  LET type == Get(shape, "type", "undefined")
  IN CASE type = "ellipse" -> createEllipse(shape, used)
       [] type = "diamond" -> createDiamond(shape, used)
       [] type = "text" -> createText(shape, used)
       [] type = "arrow" -> createArrow(shape, used)
       [] type = "line" -> createLine(shape, used)
       [] OTHER -> createRectangle(shape, used)

\* one turn of the for loop: the elements pushed for one descriptor
compileOne(shape, used) ==
  LET type == Get(shape, "type", "undefined")
  IN CASE type = "rectangle" -> createRectangle(shape, used)
       [] type = "ellipse" -> createEllipse(shape, used)
       [] type = "diamond" -> createDiamond(shape, used)
       [] type = "text" -> createText(shape, used)
       [] type = "arrow" -> createArrow(shape, used)
       [] type = "line" -> createLine(shape, used)
       [] OTHER -> [els |-> << >>, used |-> used]

\* convertShapesToElements(shapes): ok = FALSE when the loop throws
\* (shape.type of a null entry), and then els is what had been pushed to the
\* local allElements, which is lost.
RECURSIVE compileFrom(_, _, _, _)
compileFrom(shapes, i, acc, used) ==
  IF i > Len(shapes) THEN [ok |-> TRUE, els |-> acc]
  ELSE IF IsNullish(shapes[i]) THEN [ok |-> FALSE, els |-> acc]
  ELSE LET r == compileOne(shapes[i], used)
       IN compileFrom(shapes, i + 1, acc \o r.els, r.used)

convertShapesToElements(shapes, used) == compileFrom(shapes, 1, << >>, used)

\* -------------------------------------------------------- flowchart fallback
\* A definition is the sequence of its non-blank trimmed lines, each line the
\* record of what the parser's regular expressions capture from it:
\*   [kind |-> "header", dir |-> d]   ^(graph|flowchart)\s+(TD|TB|LR|RL|BT)
\*   [kind |-> "skip"]                starts with %%, style or classDef
\*   [kind |-> "edge", from |-> r, to |-> r] (+ label when |...| is present)
\*   [kind |-> "node", ref |-> r]
\*   [kind |-> "other"]               matches neither expression
\* An endpoint r is [id |-> w] plus the one bracket group that took part in
\* the match: rect (A[..]), round (A(..)) or diamond (A{..}), "" included.
spacingX == 250
spacingY == 150
nodeWidth == 180
nodeHeight == 80
startX == 100
startY == 100

\* label: rect || round || diamond || id;  shape: diamond ? : round ? : rect
parsedNode(r) ==
  [id |-> r.id,
   label |-> IF TruthyStr(r, "rect") THEN r.rect
             ELSE IF TruthyStr(r, "round") THEN r.round
             ELSE IF TruthyStr(r, "diamond") THEN r.diamond ELSE r.id,
   shape |-> IF TruthyStr(r, "diamond") THEN "diamond"
             ELSE IF TruthyStr(r, "round") THEN "ellipse" ELSE "rectangle"]

nodesHas(nodes, id) == \E k \in 1..Len(nodes) : nodes[k].id = id

\* a registration that sets the entry whether or not the id is known
registerNodeLastWins(nodes, r) ==
  IF nodesHas(nodes, r.id)
    THEN [k \in 1..Len(nodes) |->
            IF nodes[k].id = r.id THEN parsedNode(r) ELSE nodes[k]]
    ELSE Append(nodes, parsedNode(r))

\* if (!nodes.has(id)) nodes.set(id, ...): a Map keeps insertion order
registerNode(nodes, r) ==
  IF nodesHas(nodes, r.id) THEN nodes ELSE Append(nodes, parsedNode(r))

\* the body of the line loop for one line; st = [nodes, edges]
parseLine(st, line) ==
  CASE line.kind = "skip" -> st
    [] line.kind = "edge" ->
         [nodes |-> registerNode(registerNode(st.nodes, line.from), line.to),
          edges |-> Append(st.edges,
                      [from |-> line.from.id, to |-> line.to.id] @@
                      (IF Has(line, "label") THEN [label |-> line.label]
                       ELSE [from |-> line.from.id]))]
    [] line.kind = "node" ->
         [nodes |-> registerNode(st.nodes, line.ref), edges |-> st.edges]
    [] OTHER -> st

RECURSIVE parseLines(_, _, _)
parseLines(lines, i, st) ==
  IF i > Len(lines) THEN st
  ELSE parseLines(lines, i + 1, parseLine(st, lines[i]))

headerMatch(lines) == lines[1].kind = "header"

\* an isHorizontal that knows left-to-right only
isHorizontalLeftToRight(lines) ==
  headerMatch(lines) /\ lines[1].dir = "LR"

isHorizontal(lines) ==
  headerMatch(lines) /\ lines[1].dir \in {"LR", "RL"}

parseGraph(lines) ==
  parseLines(lines, IF headerMatch(lines) THEN 2 ELSE 1,
             [nodes |-> << >>, edges |-> << >>])

\* parents = edges.filter(e => e.to === nodeId).map(e => e.from)
parentsOf(edges, nodeId) ==
  LET idx == SelectSeq([k \in 1..Len(edges) |-> k],
                       LAMBDA k : edges[k].to = nodeId)
  IN [j \in 1..Len(idx) |-> edges[idx[j]].from]

\* a Math.max that keeps the smaller of the two
Min2(a, b) == IF a >= b THEN b ELSE a

Max2(a, b) == IF a >= b THEN a ELSE b

\* getLevel(nodeId, visited) over the shared `levels` map.  m is the state
\* the call starts from, [levels, visited, trace]; the result adds the value
\* returned, lvl.  trace lists the nodes whose parents a call went on to
\* look up (those that passed both early returns), in the order of the
\* calls since the call made by the loop.  parentLevels is
\* parents.map(p => getLevel(p, visited)), folded into Math.max as it goes
\* (best starts at -Infinity, never returned because parents is non-empty
\* there).
RECURSIVE getLevel(_, _, _)
RECURSIVE parentLevels(_, _, _, _, _)
\* a getLevel that returns 0 for a node without parents without recording
\* it in levels
getLevelRootUnset(edges, nodeId, m) ==
  IF nodeId \in DOMAIN m.levels
    THEN [lvl |-> m.levels[nodeId], levels |-> m.levels,
          visited |-> m.visited, trace |-> m.trace]
  ELSE IF nodeId \in m.visited
    THEN [lvl |-> 0, levels |-> m.levels, visited |-> m.visited,
          trace |-> m.trace]
  ELSE LET v1 == m.visited \cup {nodeId}
           t1 == Append(m.trace, nodeId)
           parents == parentsOf(edges, nodeId)
       IN IF Len(parents) = 0
            THEN [lvl |-> 0, levels |-> m.levels, visited |-> v1,
                  trace |-> t1]
            ELSE LET r == parentLevels(edges, parents, 1, -1,
                                       [levels |-> m.levels, visited |-> v1,
                                        trace |-> t1])
                 IN [lvl |-> r.best + 1,
                     levels |-> (nodeId :> (r.best + 1)) @@ r.levels,
                     visited |-> r.visited, trace |-> r.trace]

getLevel(edges, nodeId, m) ==
  IF nodeId \in DOMAIN m.levels
    THEN [lvl |-> m.levels[nodeId], levels |-> m.levels,
          visited |-> m.visited, trace |-> m.trace]
  ELSE IF nodeId \in m.visited
    THEN [lvl |-> 0, levels |-> m.levels, visited |-> m.visited,
          trace |-> m.trace]
  ELSE LET v1 == m.visited \cup {nodeId}
           t1 == Append(m.trace, nodeId)
           parents == parentsOf(edges, nodeId)
       IN IF Len(parents) = 0
            THEN [lvl |-> 0, levels |-> m.levels @@ (nodeId :> 0),
                  visited |-> v1, trace |-> t1]
            ELSE LET r == parentLevels(edges, parents, 1, -1,
                                       [levels |-> m.levels, visited |-> v1,
                                        trace |-> t1])
                 IN [lvl |-> r.best + 1,
                     levels |-> (nodeId :> (r.best + 1)) @@ r.levels,
                     visited |-> r.visited, trace |-> r.trace]

parentLevels(edges, parents, i, best, m) ==
  IF i > Len(parents)
    THEN [best |-> best, levels |-> m.levels, visited |-> m.visited,
          trace |-> m.trace]
  ELSE LET r == getLevel(edges, parents[i], m)
       IN parentLevels(edges, parents, i + 1, Max2(best, r.lvl),
                       [levels |-> r.levels, visited |-> r.visited,
                        trace |-> r.trace])

\* what the call getLevel(node.id) of the loop starts from: a fresh visited
loopCall(levels) == [levels |-> levels, visited |-> {}, trace |-> << >>]

\* for (const node of nodeList) getLevel(node.id)
RECURSIVE computeLevels(_, _, _, _)
computeLevels(nodes, edges, i, levels) ==
  IF i > Len(nodes) THEN levels
  ELSE computeLevels(nodes, edges, i + 1,
         getLevel(edges, nodes[i].id, loopCall(levels)).levels)

\* the traces of the calls the loop makes, one per node
RECURSIVE loopTraces(_, _, _, _)
loopTraces(nodes, edges, i, levels) ==
  IF i > Len(nodes) THEN << >>
  ELSE LET r == getLevel(edges, nodes[i].id, loopCall(levels))
       IN <<r.trace>> \o loopTraces(nodes, edges, i + 1, r.levels)

emptyLevels == [id \in {} |-> 0]

levelOf(levels, id) == IF id \in DOMAIN levels THEN levels[id] ELSE 0

\* every node taken for the first of its level
indexInLevelFirst(nodes, levels, k) == 0

\* index of nodes[k] in levelGroups.get(level): the nodes of its level that
\* come before it in nodeList
indexInLevel(nodes, levels, k) ==
  Cardinality({j \in 1..(k - 1) :
                 levelOf(levels, nodes[j].id) = levelOf(levels, nodes[k].id)})

positionOf(nodes, levels, horizontal, k) ==
  LET level == levelOf(levels, nodes[k].id)
      i == indexInLevel(nodes, levels, k)
  IN IF horizontal
       THEN [x |-> startX + level * spacingX, y |-> startY + i * spacingY]
       ELSE [x |-> startX + i * spacingX, y |-> startY + level * spacingY]

\* positions: Map from node id to {x, y}
layout(nodes, levels, horizontal) ==
  [id \in {nodes[k].id : k \in 1..Len(nodes)} |->
     positionOf(nodes, levels, horizontal,
                CHOOSE k \in 1..Len(nodes) : nodes[k].id = id)]

\* a node descriptor that leaves the label out
nodeDescriptorNoLabel(node, pos) ==
  [type |-> node.shape, id |-> node.id, x |-> pos.x, y |-> pos.y,
   width |-> nodeWidth, height |-> nodeHeight]

nodeDescriptor(node, pos) ==
  [type |-> node.shape, id |-> node.id, x |-> pos.x, y |-> pos.y,
   width |-> nodeWidth, height |-> nodeHeight, label |-> node.label]

\* an arrow descriptor laid out as in a vertical chart whatever the header
arrowDescriptorVertical(edge, fromPos, toPos, horizontal, used) ==
  LET sX == fromPos.x + nodeWidth \div 2
      sY == fromPos.y + nodeHeight
      eX == toPos.x + nodeWidth \div 2
      eY == toPos.y
  IN [type |-> "arrow", id |-> uuidv4(used),
      x |-> sX, y |-> sY, width |-> eX - sX, height |-> eY - sY,
      startBinding |-> edge.from, endBinding |-> edge.to] @@
     (IF Has(edge, "label") THEN [label |-> edge.label]
      ELSE [type |-> "arrow"])

\* the descriptor pushed for one edge
arrowDescriptor(edge, fromPos, toPos, horizontal, used) ==
  LET sX == fromPos.x + nodeWidth \div 2
      sY == fromPos.y + nodeHeight
      eX == toPos.x + nodeWidth \div 2
      eY == toPos.y
  IN [type |-> "arrow", id |-> uuidv4(used),
      x |-> IF horizontal THEN fromPos.x + nodeWidth ELSE sX,
      y |-> IF horizontal THEN fromPos.y + nodeHeight \div 2 ELSE sY,
      width |-> IF horizontal THEN toPos.x - fromPos.x - nodeWidth
                ELSE eX - sX,
      height |-> IF horizontal
                   THEN toPos.y + nodeHeight \div 2
                        - (fromPos.y + nodeHeight \div 2)
                   ELSE eY - sY,
      startBinding |-> edge.from, endBinding |-> edge.to] @@
     (IF Has(edge, "label") THEN [label |-> edge.label]
      ELSE [type |-> "arrow"])

RECURSIVE arrowDescriptors(_, _, _, _, _, _)
arrowDescriptors(edges, positions, horizontal, i, acc, used) ==
  IF i > Len(edges) THEN [descs |-> acc, used |-> used]
  ELSE LET e == edges[i]
       IN IF e.from \in DOMAIN positions /\ e.to \in DOMAIN positions
            THEN LET d == arrowDescriptor(e, positions[e.from],
                                          positions[e.to], horizontal, used)
                 IN arrowDescriptors(edges, positions, horizontal, i + 1,
                                     Append(acc, d), withId(used, d))
            ELSE arrowDescriptors(edges, positions, horizontal, i + 1, acc,
                                  used)

shapeDescriptors(lines, used) ==
  LET g == parseGraph(lines)
      levels == computeLevels(g.nodes, g.edges, 1, emptyLevels)
      positions == layout(g.nodes, levels, isHorizontal(lines))
      nodeDescs == [k \in 1..Len(g.nodes) |->
                      nodeDescriptor(g.nodes[k], positions[g.nodes[k].id])]
      arrows == arrowDescriptors(g.edges, positions, isHorizontal(lines),
                                 1, << >>, used)
  IN [descs |-> nodeDescs \o arrows.descs, used |-> arrows.used]

parseBasicFlowchart(lines, used) ==
  IF Len(lines) = 0 THEN [ok |-> TRUE, els |-> << >>]
  ELSE LET d == shapeDescriptors(lines, used)
       IN convertShapesToElements(d.descs, d.used)

\* a converter that takes a result without elements for an empty diagram
convertMermaidEmptyOnNoResult(definition, ext, used) ==
  IF ext.kind = "elements" THEN [ok |-> TRUE, els |-> ext.elements]
  ELSE IF ext.kind = "noresult" THEN [ok |-> TRUE, els |-> << >>]
  ELSE parseBasicFlowchart(definition, used)

\* convertMermaidToElements(definition).  ext is what the attempt on the
\* official converter comes to: [kind |-> "unavailable"] (the import throws),
\* "throws" (parseMermaidToExcalidraw throws), "noresult" (result or
\* result.elements is falsy) or [kind |-> "elements", elements |-> s].
convertMermaidToElements(definition, ext, used) ==
  IF ext.kind = "elements"
    THEN [ok |-> TRUE, els |-> ext.elements]
    ELSE parseBasicFlowchart(definition, used)

\* ------------------------------------------------------------------- server
VARIABLES
  currentScene,  \* let currentScene
  clients,       \* const clients = new Set<WebSocket>()
  readyState,    \* per socket: "NONE" (no such socket), "OPEN", "CLOSING"
  pending,       \* requests suspended at `await convertMermaidToElements`,
                 \* in arrival order; overtaken: the scene has changed
                 \* since the request arrived
  outbox,        \* per socket: what the server sent to it in the last step
  first,         \* per socket: type of the first message sent to it, or "none"
  sync,          \* fresh: per open socket, the last message sent to it
                 \* carried the scene and the scene has not changed since;
                 \* author: the open socket whose push is the latest
                 \* mutation
  lastOp         \* the event handled in the last step, with its HTTP response

\* a call of a converter on its own, outside any request (the second and
\* third specifications below): its argument, and what it returned
VARIABLES job, result

\* the useWebSocket hook of each browser page (the fourth specification):
\* its state, its socket and its timer
VARIABLE hook

server ==
  <<currentScene, clients, readyState, pending, outbox, first, sync, lastOp>>
vars == <<server, job, result, hook>>

\* no converter call is being followed
NoJob == [kind |-> "none"]

\* no page is being followed
NoHook == [kind |-> "none"]

Conns == {1, 2}
NoConn == 0

\* ---- the inputs the environment draws from
RectA == [type |-> "rectangle", id |-> "a", label |-> "A"]
LineL == [type |-> "line", id |-> "l"]
Freedraw == [type |-> "freedraw", id |-> "f"]

AppendOf(body) == Get(body, "append", TRUE)

DrawBodies ==
  { [elements |-> Arr(<<RectA>>)],
    [elements |-> Arr(<<RectA>>), append |-> FALSE],
    [elements |-> Arr(<<Freedraw, LineL>>)],
    [elements |-> Arr(<<Freedraw, LineL>>), append |-> TRUE],
    [elements |-> Arr(<<Freedraw, LineL>>), append |-> FALSE],
    [elements |-> Arr(<<LineL, JsNull>>)],
    [elements |-> Arr(<<LineL, JsNull>>), append |-> FALSE],
    [elements |-> EmptyObject], [append |-> TRUE] }

Str(lines) == [js |-> "string", lines |-> lines]
IsString(v) == Has(v, "js") /\ v.js = "string"

NodeA == Str(<< [kind |-> "node", ref |-> [id |-> "A", round |-> "x"]] >>)

MermaidBodies ==
  { [definition |-> NodeA], [definition |-> NodeA, append |-> FALSE],
    [definition |-> Arr(<<RectA>>)], [append |-> FALSE] }

AutoBodies ==
  { [input |-> NodeA],
    [input |-> Arr(<<Freedraw, LineL>>)],
    [input |-> Arr(<<RectA>>), append |-> FALSE],
    [input |-> Arr(<<LineL, JsNull>>)],
    [input |-> EmptyObject], [append |-> TRUE] }

\* what the official converter does with a definition
ExtElement == [id |-> "x", type |-> "rectangle"]
ExtOutcomes ==
  { [kind |-> "unavailable"], [kind |-> "throws"], [kind |-> "noresult"],
    [kind |-> "elements", elements |-> <<ExtElement>>] }

PushedElement == [id |-> "p", type |-> "ellipse"]
AppStateZ == [js |-> "object", zoom |-> 2]

Payloads ==
  { [js |-> "object", elements |-> Arr(<<PushedElement>>), appState |-> AppStateZ] }

\* an inbound frame is what JSON.parse(data.toString()) makes of it
WsData ==
  { [valid |-> FALSE],
    [valid |-> TRUE, value |-> JsNull],
    [valid |-> TRUE, value |-> [js |-> "object", type |-> "ping"]],
    [valid |-> TRUE, value |-> [js |-> "object", type |-> "scene:update"]] }
  \cup { [valid |-> TRUE,
          value |-> [js |-> "object", type |-> "scene:update", payload |-> p]] :
         p \in Payloads }

\* req.body of POST /api/scene; Undefined when the request carried no JSON
\* and the body parser left req.body unset
SceneBodies ==
  { [elements |-> Arr(<<PushedElement>>), appState |-> AppStateZ],
    [elements |-> EmptyObject],
    [elements |-> JsNull],
    EmptyObject,
    Undefined }

\* ---- helpers of the handlers
EmptyScene == [js |-> "object", elements |-> Arr(<< >>)]

\* JSON.stringify({type, payload}): a property whose value is undefined is
\* left out of the text, and the receiver reads it back as missing
Message(type, payload) ==
  IF payload = Undefined THEN [type |-> type]
  ELSE [type |-> type, payload |-> payload]

PayloadOf(msg) == Get(msg, "payload", Undefined)

\* a greeting that carries the scene the server started with
sceneInitStale(scene) == Message("scene:init", EmptyScene)

sceneInit(scene) == Message("scene:init", scene)
\* an update that carries the scene the server started with
sceneUpdateStale(scene) == Message("scene:update", EmptyScene)

sceneUpdate(scene) == Message("scene:update", scene)

NoSend == [c \in Conns |-> << >>]

\* broadcast without the `client !== exclude` test
broadcastToSender(msg, exclude) ==
  [c \in Conns |->
     IF c \in clients /\ readyState[c] = "OPEN" THEN <<msg>> ELSE << >>]

\* broadcast without the readyState test
broadcastAnyState(msg, exclude) ==
  [c \in Conns |-> IF c \in clients /\ c # exclude THEN <<msg>> ELSE << >>]

\* broadcast(msg, exclude): for (const client of clients) if (client !==
\* exclude && client.readyState === WebSocket.OPEN) client.send(data)
broadcast(msg, exclude) ==
  [c \in Conns |->
     IF c \in clients /\ c # exclude /\ readyState[c] = "OPEN"
       THEN <<msg>> ELSE << >>]

\* what holds of each open socket once `sent` has gone out in a step that
\* leaves `scene` in the store, and the socket that pushed the latest
\* mutation: the sender of a stored update, no socket after a mutation
\* made by a REST request
noteSync(sent, op, scene) ==
  [fresh |-> [c \in Conns |->
                IF sent[c] # << >>
                  THEN PayloadOf(sent[c][Len(sent[c])]) = scene
                  ELSE sync.fresh[c] /\ scene = currentScene],
   author |-> IF op.op = "message" /\ op.stored THEN op.conn
              ELSE IF /\ op.op \in {"draw", "auto", "mermaid:done",
                                    "auto:done", "clear", "scene"}
                      /\ op.status = 200
                THEN NoConn
              ELSE sync.author]

\* the suspended requests once a step has left `scene` in the store
overtake(scene) ==
  IF scene = currentScene THEN pending
  ELSE [k \in 1..Len(pending) |-> [pending[k] EXCEPT !.overtaken = TRUE]]

\* what is kept about sockets that are open, once c no longer is
forget(c) ==
  [fresh |-> [sync.fresh EXCEPT ![c] = FALSE],
   author |-> IF sync.author = c THEN NoConn ELSE sync.author]

noteFirst(sent) ==
  [c \in Conns |->
     IF first[c] = "none" /\ sent[c] # << >> THEN sent[c][1].type
     ELSE first[c]]

\* currentScene.elements.length, or undefined (left out of a JSON body)
elementsLength(scene) ==
  IF IsArray(scene.elements) THEN [totalElements |-> Len(scene.elements.items)]
  ELSE [x \in {} |-> 0]

\* a merge whose replace branch builds a new scene object around the new
\* elements
mergeElementsFresh(scene, newElements, append) ==
  IF IsNullish(scene) THEN [ok |-> FALSE, scene |-> scene]
  ELSE IF append
    THEN IF Has(scene, "elements") /\ IsArray(scene.elements)
           THEN [ok |-> TRUE,
                 scene |-> [scene EXCEPT !.elements =
                              Arr(scene.elements.items \o newElements)]]
           ELSE [ok |-> FALSE, scene |-> scene]
    ELSE [ok |-> TRUE,
          scene |-> [js |-> "object", elements |-> Arr(newElements)]]

\* a merge that puts the new elements in front of the existing ones
mergeElementsInFront(scene, newElements, append) ==
  IF IsNullish(scene) THEN [ok |-> FALSE, scene |-> scene]
  ELSE IF append
    THEN IF Has(scene, "elements") /\ IsArray(scene.elements)
           THEN [ok |-> TRUE,
                 scene |-> [scene EXCEPT !.elements =
                              Arr(newElements \o scene.elements.items)]]
           ELSE [ok |-> FALSE, scene |-> scene]
    ELSE [ok |-> TRUE,
          scene |-> [elements |-> Arr(newElements)] @@ scene]

\* if (append) currentScene.elements = [...currentScene.elements, ...new]
\* else currentScene.elements = new.   ok = FALSE when the statement throws:
\* currentScene is undefined or null, or (append) its elements cannot be
\* spread; the scene is then as it was.
mergeElements(scene, newElements, append) ==
  IF IsNullish(scene) THEN [ok |-> FALSE, scene |-> scene]
  ELSE IF append
    THEN IF Has(scene, "elements") /\ IsArray(scene.elements)
           THEN [ok |-> TRUE,
                 scene |-> [scene EXCEPT !.elements =
                              Arr(scene.elements.items \o newElements)]]
           ELSE [ok |-> FALSE, scene |-> scene]
    ELSE [ok |-> TRUE,
          scene |-> [elements |-> Arr(newElements)] @@ scene]

\* the identifiers of the elements the server holds
idsInExistence ==
  IF ~IsNullish(currentScene) /\ Has(currentScene, "elements")
     /\ IsArray(currentScene.elements)
    THEN {currentScene.elements.items[k].id :
            k \in 1..Len(currentScene.elements.items)}
    ELSE {}

\* a handler that pushes each compiled element onto the stored list as it
\* goes, so that a throw part-way leaves the elements compiled so far
settlePartial(scene, r, append) ==
  LET m == mergeElements(scene, r.els, append)
  IN IF r.ok /\ m.ok
       THEN [status |-> 200, scene |-> m.scene, sent |-> TRUE]
       ELSE [status |-> 500, scene |-> IF m.ok THEN m.scene ELSE scene,
             sent |-> FALSE]

\* lines 113-131 of /api/draw, shared with /api/draw/mermaid (145-163) and
\* /api/auto (217-234): r is what the converter returned or threw.  The
\* outcome of the try block: the converter and the merge statement come
\* before the only assignment to the scene, so a throw leaves it as it was
\* and the catch clause answers 500 without a broadcast.
settle(scene, r, append) ==
  LET m == mergeElements(scene, r.els, append)
  IN IF r.ok /\ m.ok
       THEN [status |-> 200, scene |-> m.scene, sent |-> TRUE]
       ELSE [status |-> 500, scene |-> scene, sent |-> FALSE]

\* a handler that reports the number of elements it added as the total
applyElementsTotalAdded(op, body, r, extra) ==
  LET o == settle(currentScene, r, AppendOf(body))
  IN /\ o.status = 200 => Len(o.scene.elements.items) <= MaxSceneLen
     /\ currentScene' = o.scene
     /\ outbox' = IF o.sent THEN broadcast(sceneUpdate(o.scene), NoConn)
                  ELSE NoSend
     /\ lastOp' = IF o.status = 200
                    THEN [op |-> op, status |-> 200,
                          elementsAdded |-> Len(r.els),
                          totalElements |-> Len(r.els)]
                         @@ extra
                    ELSE [op |-> op, status |-> 500, error |-> "err.message"]
     /\ first' = noteFirst(outbox')
     /\ sync' = noteSync(outbox', lastOp', currentScene')
     /\ UNCHANGED <<clients, readyState,
               job, result, hook>>

\* the statements after the conversion, run on the scene they read
applyElementsTo(scene, op, body, r, extra) ==
  LET o == settle(scene, r, AppendOf(body))
  IN /\ o.status = 200 => Len(o.scene.elements.items) <= MaxSceneLen
     /\ currentScene' = o.scene
     /\ outbox' = IF o.sent THEN broadcast(sceneUpdate(o.scene), NoConn)
                  ELSE NoSend
     /\ lastOp' = IF o.status = 200
                    THEN [op |-> op, status |-> 200,
                          elementsAdded |-> Len(r.els),
                          totalElements |-> Len(o.scene.elements.items)]
                         @@ extra
                    ELSE [op |-> op, status |-> 500, error |-> "err.message"]
     /\ first' = noteFirst(outbox')
     /\ sync' = noteSync(outbox', lastOp', currentScene')
     /\ UNCHANGED <<clients, readyState,
               job, result, hook>>

applyElements(op, body, r, extra) ==
  applyElementsTo(currentScene, op, body, r, extra)

\* a handler that has emptied the scene by the time it rejects the body
badRequestAfterReset(op, body) ==
  /\ lastOp' = [op |-> op, status |-> 400, error |-> "must be"]
  /\ currentScene' = EmptyScene
  /\ outbox' = NoSend
  /\ UNCHANGED <<clients, readyState, pending, first, sync,
               job, result, hook>>

\* return res.status(400).json({ error: ... })
badRequest(op, body) ==
  /\ lastOp' = [op |-> op, status |-> 400, error |-> "must be"]
  /\ outbox' = NoSend
  /\ UNCHANGED <<currentScene, clients, readyState, pending, first, sync,
               job, result, hook>>

\* a handler that converts with the built-in parser on the spot instead of
\* awaiting the converter
suspendNever(op, body, definition) ==
  /\ applyElements(op, body,
        convertMermaidToElements(definition.lines, [kind |-> "unavailable"],
                                 idsInExistence),
        [op |-> op])
  /\ pending' = overtake(currentScene')

suspend(op, body, definition) ==
  /\ Len(pending) < MaxPending
  /\ pending' = Append(pending, [op |-> op, body |-> body,
                                 definition |-> definition.lines,
                                 overtaken |-> FALSE])
  /\ lastOp' = [op |-> op, status |-> 0]
  /\ outbox' = NoSend
  /\ UNCHANGED <<currentScene, clients, readyState, first, sync,
               job, result, hook>>

\* ---- actions
Init ==
  /\ currentScene = EmptyScene
  /\ clients = {}
  /\ readyState = [c \in Conns |-> "NONE"]
  /\ pending = << >>
  /\ outbox = NoSend
  /\ first = [c \in Conns |-> "none"]
  /\ sync = [fresh |-> [c \in Conns |-> FALSE], author |-> NoConn]
  /\ lastOp = [op |-> "listen"]
  /\ job = NoJob
  /\ result = NoJob
  /\ hook = NoHook

\* wss.on("connection")
Connect(c) ==
  /\ readyState[c] = "NONE"
  /\ clients' = clients \cup {c}
  /\ readyState' = [readyState EXCEPT ![c] = "OPEN"]
  /\ outbox' = [NoSend EXCEPT ![c] = <<sceneInit(currentScene)>>]
  /\ first' = noteFirst(outbox')
  /\ lastOp' = [op |-> "connect", conn |-> c]
  /\ sync' = noteSync(outbox', lastOp', currentScene)
  /\ UNCHANGED <<currentScene, pending,
               job, result, hook>>

\* a message handler that stores the payload of any message that parses
onMessageAnyType(data) ==
  IF ~data.valid \/ IsNullish(data.value) THEN [stored |-> FALSE]
  ELSE [stored |-> TRUE, scene |-> PayloadOf(data.value)]

\* what the message handler does with a frame: the scene it stores, or
\* [stored |-> FALSE] when the frame is dropped
onMessage(data) ==
  IF ~data.valid \/ IsNullish(data.value) THEN [stored |-> FALSE]
  ELSE IF Get(data.value, "type", "") = "scene:update"
    THEN [stored |-> TRUE, scene |-> PayloadOf(data.value)]
    ELSE [stored |-> FALSE]

\* ws.on("message")
WsMessage(c, data) ==
  /\ c \in clients /\ readyState[c] = "OPEN"
  /\ LET h == onMessage(data)
     IN IF h.stored
          THEN /\ currentScene' = h.scene
               /\ outbox' = broadcast(sceneUpdate(h.scene), c)
          ELSE /\ currentScene' = currentScene
               /\ outbox' = NoSend
  /\ first' = noteFirst(outbox')
  /\ lastOp' = [op |-> "message", conn |-> c, stored |-> onMessage(data).stored]
  /\ sync' = noteSync(outbox', lastOp', currentScene')
  /\ pending' = overtake(currentScene')
  /\ UNCHANGED <<clients, readyState,
               job, result, hook>>

\* the peer's close frame arrives or the transport starts to go down: the
\* socket leaves OPEN before its "close" event is emitted
BeginClose(c) ==
  /\ readyState[c] = "OPEN"
  /\ readyState' = [readyState EXCEPT ![c] = "CLOSING"]
  /\ outbox' = NoSend
  /\ lastOp' = [op |-> "closing", conn |-> c]
  /\ sync' = forget(c)
  /\ UNCHANGED <<currentScene, clients, pending, first,
               job, result, hook>>

\* ws.on("close")
WsClose(c) ==
  /\ readyState[c] # "NONE"
  /\ clients' = clients \ {c}
  /\ readyState' = [readyState EXCEPT ![c] = "NONE"]
  /\ first' = [first EXCEPT ![c] = "none"]
  /\ sync' = forget(c)
  /\ outbox' = NoSend
  /\ lastOp' = [op |-> "close", conn |-> c]
  /\ UNCHANGED <<currentScene, pending,
               job, result, hook>>

\* GET /api/health: currentScene.elements.length throws on a scene that is
\* undefined, null or has no elements, and Express answers 500
Health ==
  /\ lastOp' =
       IF IsNullish(currentScene) \/ ~Has(currentScene, "elements")
         THEN [op |-> "health", status |-> 500]
         ELSE [op |-> "health", status |-> 200,
               clients |-> Cardinality(clients)]
              @@ (IF IsArray(currentScene.elements)
                    THEN [elements |-> Len(currentScene.elements.items)]
                    ELSE [op |-> "health"])
  /\ outbox' = NoSend
  /\ UNCHANGED <<currentScene, clients, readyState, pending, first, sync,
               job, result, hook>>

\* POST /api/draw
Draw(body) ==
  IF ~IsArray(Get(body, "elements", Undefined))
    THEN badRequest("draw", body)
    ELSE /\ applyElements("draw", body,
              convertShapesToElements(body.elements.items, idsInExistence),
              [op |-> "draw"])
         /\ pending' = overtake(currentScene')

\* POST /api/draw/mermaid up to the await
Mermaid(body) ==
  IF ~IsString(Get(body, "definition", Undefined))
    THEN badRequest("mermaid", body)
    ELSE suspend("mermaid", body, body.definition)

\* POST /api/auto up to the await, or to its end when input is not a string
Auto(body) ==
  LET input == Get(body, "input", Undefined)
  IN IF IsString(input) THEN suspend("auto", body, input)
     ELSE IF IsArray(input)
       THEN /\ applyElements("auto", body,
                 convertShapesToElements(input.items, idsInExistence),
                 [format |-> "shapes"])
            /\ pending' = overtake(currentScene')
       ELSE badRequest("auto", body)

Remove(s, i) == SubSeq(s, 1, i - 1) \o SubSeq(s, i + 1, Len(s))

\* a handler that appends to a list of its own
sceneReadFresh(req) == EmptyScene

\* the scene the statements after the await read: the stored one
sceneRead(req) == currentScene

\* the rest of /api/draw/mermaid or /api/auto once the converter settles
Resume(i, ext) ==
  /\ i \in 1..Len(pending)
  /\ LET req == pending[i]
     IN applyElementsTo(sceneRead(req), req.op \o ":done", req.body,
          convertMermaidToElements(req.definition, ext, idsInExistence),
          [overtaken |-> req.overtaken] @@
          (IF req.op = "auto" THEN [format |-> "mermaid"]
           ELSE [x \in {} |-> 0]))
  /\ pending' = Remove(pending, i)

\* a clear that empties the list of the scene object in place, which has
\* no effect on a scene that is not an object
clearSceneInPlace(scene) ==
  IF IsNullish(scene) THEN scene
  ELSE [elements |-> Arr(<< >>)] @@ scene

\* currentScene = { elements: [] }
clearScene(scene) == [js |-> "object", elements |-> Arr(<< >>)]

\* POST /api/clear
Clear ==
  /\ currentScene' = clearScene(currentScene)
  /\ outbox' = broadcast(sceneUpdate(currentScene'), NoConn)
  /\ first' = noteFirst(outbox')
  /\ lastOp' = [op |-> "clear", status |-> 200]
  /\ sync' = noteSync(outbox', lastOp', currentScene')
  /\ pending' = overtake(currentScene')
  /\ UNCHANGED <<clients, readyState,
               job, result, hook>>

\* elements || [] and appState || {}: null and a missing property are falsy
orElse(body, f, dflt) ==
  IF Has(body, f) /\ ~IsNullish(body[f]) THEN body[f] ELSE dflt

replaceScene(body) ==
  [js |-> "object",
   elements |-> orElse(body, "elements", Arr(<< >>)),
   appState |-> orElse(body, "appState", EmptyObject)]

\* POST /api/scene: destructuring a body that is undefined throws inside
\* the try block, before the assignment
PostScene(body) ==
  /\ IF IsNullish(body)
       THEN /\ currentScene' = currentScene
            /\ outbox' = NoSend
            /\ lastOp' = [op |-> "scene", status |-> 500,
                          error |-> "err.message"]
       ELSE /\ currentScene' = replaceScene(body)
            /\ outbox' = broadcast(sceneUpdate(currentScene'), NoConn)
            /\ lastOp' = [op |-> "scene", status |-> 200]
                          @@ elementsLength(currentScene')
  /\ first' = noteFirst(outbox')
  /\ sync' = noteSync(outbox', lastOp', currentScene')
  /\ pending' = overtake(currentScene')
  /\ UNCHANGED <<clients, readyState,
               job, result, hook>>

\* an export that returns the element list alone
GetSceneElementsOnly ==
  /\ lastOp' = [op |-> "export", status |-> 200,
                scene |-> IF IsNullish(currentScene) THEN currentScene
                          ELSE [js |-> "object",
                                elements |-> currentScene.elements]]
  /\ outbox' = NoSend
  /\ UNCHANGED <<currentScene, clients, readyState, pending, first, sync,
                 job, result, hook>>

\* GET /api/scene: res.json(currentScene)
GetScene ==
  /\ lastOp' = [op |-> "export", status |-> 200, scene |-> currentScene]
  /\ outbox' = NoSend
  /\ UNCHANGED <<currentScene, clients, readyState, pending, first, sync,
               job, result, hook>>

Next ==
  \/ \E c \in Conns : Connect(c)
  \/ \E c \in Conns, data \in WsData : WsMessage(c, data)
  \/ \E c \in Conns : BeginClose(c)
  \/ \E c \in Conns : WsClose(c)
  \/ Health
  \/ \E body \in DrawBodies : Draw(body)
  \/ \E body \in MermaidBodies : Mermaid(body)
  \/ \E body \in AutoBodies : Auto(body)
  \/ \E i \in 1..MaxPending, ext \in ExtOutcomes : Resume(i, ext)
  \/ Clear
  \/ \E body \in SceneBodies : PostScene(body)
  \/ GetScene

Spec == Init /\ [][Next]_vars

\* ------------------------------------------- the shape compiler on its own
\* the server as it is when it starts, with nothing going on
ServerIdle ==
  /\ currentScene = EmptyScene
  /\ clients = {}
  /\ readyState = [c \in Conns |-> "NONE"]
  /\ pending = << >>
  /\ outbox = NoSend
  /\ first = [c \in Conns |-> "none"]
  /\ sync = [fresh |-> [c \in Conns |-> FALSE], author |-> NoConn]
  /\ lastOp = [op |-> "listen"]

NoField == [x \in {} |-> ""]
Absent == "absent"

\* a descriptor of kind k; label l and id i are left out when Absent
Descriptor(k, l, i) ==
  [type |-> k]
  @@ (IF l = Absent THEN NoField ELSE [label |-> l])
  @@ (IF i = Absent THEN NoField ELSE [id |-> i])

ShapeKinds == {"rectangle", "ellipse", "diamond", "text", "arrow", "line"}

\* points: [number, number][]
BentPoints == << <<0, 0>>, <<5, 5>>, <<9, 0>> >>

\* arrows and lines with a width, a height, both, or a point list
Segments ==
  { [type |-> k] @@ g :
      k \in {"arrow", "line"},
      g \in { [width |-> 40], [height |-> 30],
              [width |-> 40, height |-> 30],
              [width |-> 40, height |-> 30, points |-> BentPoints] } }

\* the six kinds and one the compiler does not know, each with no label,
\* a label and an empty label, with and without an explicit id; a second
\* id and an empty id; and the segments
Descriptors ==
  { Descriptor(k, l, i) : k \in ShapeKinds \cup {"freedraw"},
                          l \in {Absent, "L", ""}, i \in {Absent, "a"} }
  \cup { Descriptor("rectangle", Absent, "b"),
         Descriptor("rectangle", Absent, "") }
  \cup Segments

RECURSIVE SeqsUpTo(_, _)
SeqsUpTo(S, n) ==
  IF n = 0 THEN { << >> }
  ELSE LET shorter == SeqsUpTo(S, n - 1)
       IN shorter \cup { Append(q, x) : q \in shorter, x \in S }

ShapeJobs ==
  { [kind |-> "shapes", shapes |-> q] : q \in SeqsUpTo(Descriptors, MaxShapes) }

ShapeInit ==
  ServerIdle /\ job \in ShapeJobs /\ result = NoJob /\ hook = NoHook

\* convertShapesToElements(shapes), called with no element in existence
CompileShapes ==
  /\ job.kind = "shapes" /\ result = NoJob
  /\ result' = convertShapesToElements(job.shapes, {})
  /\ UNCHANGED <<server, job, hook>>

ShapeNext == CompileShapes

ShapeSpec == ShapeInit /\ [][ShapeNext]_vars

\* ----------------------------------------- the diagram compiler on its own
NodeIds == {"A", "B", "C"}

Edge(u, v) == [kind |-> "edge", from |-> [id |-> u], to |-> [id |-> v]]

\* u --> v for every pair of the three nodes, the self-loop A --> A,
\* A -->|yes| B, B -->|| C, A{d} --> B[], the declarations C{c}, A(r), A()
\* and B{}, and a line that matches neither expression
ChartLines ==
  ({ Edge(u, v) : u, v \in NodeIds } \ { Edge("B", "B"), Edge("C", "C") })
  \cup { Edge("A", "B") @@ [label |-> "yes"],
         Edge("B", "C") @@ [label |-> ""],
         [kind |-> "edge", from |-> [id |-> "A", diamond |-> "d"],
                           to |-> [id |-> "B", rect |-> ""]],
         [kind |-> "node", ref |-> [id |-> "C", diamond |-> "c"]],
         [kind |-> "node", ref |-> [id |-> "A", round |-> "r"]],
         [kind |-> "node", ref |-> [id |-> "A", round |-> ""]],
         [kind |-> "node", ref |-> [id |-> "B", diamond |-> ""]],
         [kind |-> "other"] }

\* no header line, or "graph TD", "graph LR", "graph RL"
Headers ==
  { << >> } \cup { << [kind |-> "header", dir |-> d] >> : d \in {"TD", "LR", "RL"} }

TextJobs ==
  { [kind |-> "text", lines |-> h \o q] :
      h \in Headers, q \in SeqsUpTo(ChartLines, MaxLines) }

TextInit ==
  ServerIdle /\ job \in TextJobs /\ result = NoJob /\ hook = NoHook

\* convertMermaidToElements(definition), called with no element in
\* existence, for each thing the official converter may come to
CompileText(ext) ==
  /\ job.kind = "text" /\ result = NoJob
  /\ result' = [ext |-> ext.kind]
                @@ convertMermaidToElements(job.lines, ext, {})
  /\ UNCHANGED <<server, job, hook>>

\* parseBasicFlowchart up to its last statement: the levels and positions
\* it computes and the descriptors it builds from them
Layout ==
  /\ job.kind = "text" /\ result = NoJob /\ Len(job.lines) > 0
  /\ LET g == parseGraph(job.lines)
         levels == computeLevels(g.nodes, g.edges, 1, emptyLevels)
     IN result' = [kind |-> "layout",
                   levels |-> levels,
                   positions |-> layout(g.nodes, levels,
                                        isHorizontal(job.lines)),
                   traces |-> loopTraces(g.nodes, g.edges, 1, emptyLevels),
                   descs |-> shapeDescriptors(job.lines, {}).descs]
  /\ UNCHANGED <<server, job, hook>>

TextNext ==
  \/ \E ext \in ExtOutcomes : CompileText(ext)
  \/ Layout

TextSpec == TextInit /\ [][TextNext]_vars


\* ------------------------------------------------ the client hook on its own
\* Per page: mounted (the effect has run and its cleanup has not), status,
\* lastMessage, ws (the readyState of the one socket the page has, "none"
\* when it has none), wsRef (wsRef.current is that socket), timer (a
\* setTimeout(connect, 3000) is due), events (the events of the socket
\* waiting for their handlers, oldest first) and last (what happened last).
\* init records whether onmessage has been handed a scene:init on the
\* socket the page has now.  The remaining fields are those of the App
\* component that calls the hook: api (excalidrawAPI is set), the refs
\* hasReceivedInit, isRemoteUpdate and sendTimer (a debounce timer is due),
\* guards (how many 500 ms timers that lower isRemoteUpdate are due) and
\* ran (lastMessage and api as they were when the effect last ran).
Pages == {1, 2}

Frames == {"m1", "m2"}
NoMessage == "null"

\* the frames the server sends, as the App reads them: the type and the
\* scene of the payload
InitFrames == {"scene:init a", "scene:init b"}
UpdateFrames == {"scene:update a", "scene:update b"}

\* useState("connecting"), useState(null), useRef(null) twice
hookInitial ==
  [mounted |-> FALSE, status |-> "connecting", lastMessage |-> NoMessage,
   ws |-> "none", wsRef |-> FALSE, timer |-> FALSE, events |-> << >>,
   last |-> "render", init |-> FALSE,
   api |-> FALSE, hasReceivedInit |-> FALSE, isRemoteUpdate |-> FALSE,
   sendTimer |-> FALSE, guards |-> 0, ran |-> <<NoMessage, FALSE>>]

HookInit ==
  ServerIdle /\ job = NoJob /\ result = NoJob
  /\ hook = [p \in Pages |-> hookInitial]

\* ws.close(): starts the closing handshake of a socket that is connecting
\* or open, and does nothing to one that is closing or closed
close(h) ==
  IF h.ws \in {"CONNECTING", "OPEN"} THEN [h EXCEPT !.ws = "CLOSING"] ELSE h

\* connect(): the url of the page is well-formed, so the constructor
\* returns a socket that is connecting
connect(h) ==
  [h EXCEPT !.ws = "CONNECTING", !.wsRef = TRUE, !.status = "connecting",
            !.events = << >>, !.init = FALSE]

\* an onclose that schedules nothing
oncloseNoReconnect(h) ==
  [h EXCEPT !.status = "disconnected", !.wsRef = FALSE, !.ws = "none"]

\* ws.onclose: the close event is the last event of a socket
onclose(h) ==
  [h EXCEPT !.status = "disconnected", !.wsRef = FALSE, !.timer = TRUE,
            !.ws = "none"]

\* ws.onerror
onerror(h) == close(h)

\* ws.onopen
onopen(h) == [h EXCEPT !.status = "connected"]

\* ws.onmessage
onmessage(h, data) ==
  [h EXCEPT !.lastMessage = data, !.init = @ \/ data \in InitFrames]

Step(p, h, what) == hook' = [hook EXCEPT ![p] = [h EXCEPT !.last = what]]

Frozen == UNCHANGED <<server, job, result>>

\* useEffect: connect()
Mount(p) ==
  /\ hook[p].last = "render"
  /\ Step(p, connect([hook[p] EXCEPT !.mounted = TRUE]), "mount")
  /\ Frozen

\* the cleanup of the effect
Unmount(p) ==
  /\ hook[p].mounted
  /\ LET h == [hook[p] EXCEPT !.mounted = FALSE, !.timer = FALSE]
     IN Step(p, IF h.wsRef THEN close(h) ELSE h, "unmount")
  /\ Frozen

\* the server completes the handshake
ServerAccepts(p) ==
  /\ hook[p].ws = "CONNECTING"
  /\ Step(p, [hook[p] EXCEPT !.ws = "OPEN",
                             !.events = Append(@, "open")], "accepted")
  /\ Frozen

\* the connection cannot be made, or breaks: error, then close
ConnectionFails(p) ==
  /\ hook[p].ws \in {"CONNECTING", "OPEN"}
  /\ Step(p, [hook[p] EXCEPT !.ws = "CLOSED",
                             !.events = @ \o <<"error", "close">>], "failed")
  /\ Frozen

\* the closing handshake ends, started by the server on an open socket or
\* by ws.close()
CloseCompletes(p) ==
  /\ hook[p].ws \in {"OPEN", "CLOSING"}
  /\ Step(p, [hook[p] EXCEPT !.ws = "CLOSED",
                             !.events = Append(@, "close")], "closed")
  /\ Frozen

\* a frame from the server arrives
Receive(p, data) ==
  /\ hook[p].ws = "OPEN"
  /\ hook[p].events = << >>
  /\ Step(p, [hook[p] EXCEPT !.events = Append(@, data)], "frame")
  /\ Frozen

\* the browser runs the handler of the oldest waiting event
Dispatch(p) ==
  /\ hook[p].events # << >>
  /\ LET e == Head(hook[p].events)
         h == [hook[p] EXCEPT !.events = Tail(@)]
     IN CASE e = "open" -> Step(p, onopen(h), "onopen")
          [] e = "error" -> Step(p, onerror(h), "onerror")
          [] e = "close" -> Step(p, onclose(h), "onclose")
          [] OTHER -> Step(p, onmessage(h, e), "onmessage")
  /\ Frozen

\* the timer set by onclose runs connect
TimerFires(p) ==
  /\ hook[p].timer
  /\ Step(p, connect([hook[p] EXCEPT !.timer = FALSE]), "timer")
  /\ Frozen

\* sendMessage(data): sent only through an open socket
SendMessage(p) ==
  /\ hook[p].mounted
  /\ Step(p, hook[p],
          IF hook[p].wsRef /\ hook[p].ws = "OPEN" THEN "sent" ELSE "unsent")
  /\ Frozen

HookNext ==
  \/ \E p \in Pages : Mount(p)
  \/ \E p \in Pages : Unmount(p)
  \/ \E p \in Pages : ServerAccepts(p)
  \/ \E p \in Pages : ConnectionFails(p)
  \/ \E p \in Pages : CloseCompletes(p)
  \/ \E p \in Pages, data \in Frames : Receive(p, data)
  \/ \E p \in Pages : Dispatch(p)
  \/ \E p \in Pages : TimerFires(p)
  \/ \E p \in Pages : SendMessage(p)

HookSpec == HookInit /\ [][HookNext]_vars

\* handlers of waiting events run, timers fire, a handshake that has begun
\* to close ends, and the server accepts a page that keeps trying
HookFairness ==
  \A p \in Pages :
    /\ WF_vars(Dispatch(p))
    /\ WF_vars(TimerFires(p))
    /\ WF_vars(CloseCompletes(p) /\ hook[p].ws = "CLOSING")
    /\ SF_vars(ServerAccepts(p))

HookFairSpec == HookSpec /\ HookFairness

\* ------------------------------------------- the App that calls the hook
\* One page is enough: pages share nothing.  A state change and the render
\* that follows it are one step, so a handler reads status as it is.
AppPages == {1}

\* the 500 ms timers of the effect that may be due at once
MaxGuards == 2

\* excalidrawAPI={(api) => setExcalidrawAPI(api)}
Ready(p) ==
  /\ hook[p].mounted /\ ~hook[p].api
  /\ Step(p, [hook[p] EXCEPT !.api = TRUE], "ready")
  /\ Frozen

\* the server sends a frame on the connection of the page: scene:init is
\* the first frame of a connection and every later one is a scene:update
ServerSends(p) ==
  \E data \in InitFrames \cup UpdateFrames :
    /\ data \in InitFrames <=> ~hook[p].init
    /\ Receive(p, data)

\* the body of the effect on [excalidrawAPI, lastMessage]
effect(h) ==
  IF ~h.api \/ h.lastMessage = NoMessage THEN h
  ELSE IF h.lastMessage \in InitFrames \cup UpdateFrames
    THEN [h EXCEPT !.isRemoteUpdate = TRUE,
                   !.hasReceivedInit = @ \/ h.lastMessage \in InitFrames,
                   !.guards = @ + 1]
  ELSE h

\* the effect runs after a render in which excalidrawAPI or lastMessage
\* has changed
Effect(p) ==
  /\ hook[p].mounted
  /\ hook[p].ran # <<hook[p].lastMessage, hook[p].api>>
  /\ hook[p].guards < MaxGuards
  /\ Step(p, effect([hook[p] EXCEPT !.ran = <<hook[p].lastMessage,
                                              hook[p].api>>]), "effect")
  /\ Frozen

\* setTimeout(() => { isRemoteUpdate.current = false }, 500)
GuardDown(p) ==
  /\ hook[p].guards > 0
  /\ Step(p, [hook[p] EXCEPT !.guards = @ - 1, !.isRemoteUpdate = FALSE],
          "guard")
  /\ Frozen

\* handleChange(elements) up to the setTimeout
handleChange(h) ==
  IF h.isRemoteUpdate THEN h
  ELSE IF ~h.hasReceivedInit THEN h
  ELSE IF h.status # "connected" THEN h
  ELSE [h EXCEPT !.sendTimer = TRUE]

\* the canvas reports a change
HandleChange(p) ==
  /\ hook[p].mounted
  /\ Step(p, handleChange(hook[p]), "change")
  /\ Frozen

\* the debounce timer runs sendMessage with a scene:update of the local
\* scene
DebounceFires(p) ==
  /\ hook[p].sendTimer
  /\ Step(p, [hook[p] EXCEPT !.sendTimer = FALSE],
          IF hook[p].wsRef /\ hook[p].ws = "OPEN" THEN "sent" ELSE "unsent")
  /\ Frozen

\* the reconnect timer (3000 ms) runs connect; a debounce timer (300 ms)
\* that is due was set before it, while the page was connected, and runs
\* first
ReconnectFires(p) ==
  /\ ~hook[p].sendTimer
  /\ TimerFires(p)

AppNext ==
  \/ \E p \in AppPages : Mount(p)
  \/ \E p \in AppPages : Unmount(p)
  \/ \E p \in AppPages : ServerAccepts(p)
  \/ \E p \in AppPages : ConnectionFails(p)
  \/ \E p \in AppPages : CloseCompletes(p)
  \/ \E p \in AppPages : ServerSends(p)
  \/ \E p \in AppPages : Dispatch(p)
  \/ \E p \in AppPages : ReconnectFires(p)
  \/ \E p \in AppPages : Ready(p)
  \/ \E p \in AppPages : Effect(p)
  \/ \E p \in AppPages : GuardDown(p)
  \/ \E p \in AppPages : HandleChange(p)
  \/ \E p \in AppPages : DebounceFires(p)

AppSpec == HookInit /\ [][AppNext]_vars

\* ------------------------------------------------------------------ claims
\* the step is the handling of that event with that input (the event's
\* name is looked at first: it tells most steps apart at once)
ConnectStep(c) == lastOp'.op = "connect" /\ Connect(c)
WsMessageStep(c, data) == lastOp'.op = "message" /\ WsMessage(c, data)
DrawStep(body) == lastOp'.op = "draw" /\ Draw(body)
MermaidStep(body) == lastOp'.op = "mermaid" /\ Mermaid(body)
AutoStep(body) == lastOp'.op = "auto" /\ Auto(body)
ResumeStep(i, ext) ==
  lastOp'.op \in {"mermaid:done", "auto:done"} /\ Resume(i, ext)
PostSceneStep(body) == lastOp'.op = "scene" /\ PostScene(body)

\* a frame the message handler accepts as a pushed update with a payload
IsPush(data) ==
  /\ data.valid /\ ~IsNullish(data.value)
  /\ Get(data.value, "type", "") = "scene:update"
  /\ Has(data.value, "payload")

Open(c) == c \in clients /\ readyState[c] = "OPEN"

\* C1: when a connection pushes a well-formed scene:update, the server
\* stores the payload as its scene and sends that update, carrying the
\* payload, to every other open connection, and sends nothing back to the
\* connection that pushed it.
C1_EchoSuppression ==
  [][\A c \in Conns, data \in WsData :
       (WsMessageStep(c, data) /\ IsPush(data)) =>
         /\ currentScene' = data.value.payload
         /\ outbox'[c] = << >>
         /\ \A d \in Conns \ {c} :
              outbox'[d] =
                IF Open(d)
                  THEN << [type |-> "scene:update",
                           payload |-> data.value.payload] >>
                  ELSE << >>]_vars

\* a push by one connection has reached the other and not the sender
C1_Witness ==
  /\ lastOp.op = "message" /\ lastOp.stored
  /\ outbox[lastOp.conn] = << >>
  /\ \E d \in Conns \ {lastOp.conn} :
       /\ Open(d)
       /\ outbox[d] = << [type |-> "scene:update", payload |-> currentScene] >>
       /\ currentScene.elements = Arr(<<PushedElement>>)

\* C2: the first message the server sends on a newly accepted connection is
\* scene:init and its payload is the server's scene at that moment, whatever
\* mutations came before; nothing else is ever the first message.
C2_InitFirst ==
  [][/\ \A c \in Conns :
          ConnectStep(c) =>
            /\ first[c] = "none"
            /\ Len(outbox'[c]) = 1
            /\ outbox'[c][1].type = "scene:init"
            /\ PayloadOf(outbox'[c][1]) = currentScene
            /\ first'[c] = "scene:init"
     /\ \A c \in Conns : first'[c] \in {"none", "scene:init"}]_vars

\* a connection accepted after the scene grew to two elements was greeted
\* with exactly that scene
C2_Witness ==
  /\ lastOp.op = "connect"
  /\ first[lastOp.conn] = "scene:init"
  /\ ~IsNullish(currentScene) /\ IsArray(currentScene.elements)
  /\ Len(currentScene.elements.items) = 2
  /\ outbox[lastOp.conn] = << [type |-> "scene:init", payload |-> currentScene] >>

RestMutations == {"draw", "auto", "mermaid:done", "auto:done", "clear", "scene"}

\* C3: a REST request that mutates the scene (draw, mermaid, auto, clear,
\* replace) sends exactly one scene:update, carrying the scene as it is
\* after the mutation, to every open connection and nothing to a connection
\* that is not open; a mermaid or auto request sends nothing while its
\* conversion is awaited.
C3_RestBroadcast ==
  [][/\ (lastOp'.op \in RestMutations /\ lastOp'.status = 200) =>
          \A c \in Conns :
            outbox'[c] =
              IF Open(c)
                THEN << [type |-> "scene:update", payload |-> currentScene'] >>
                ELSE << >>
     /\ (lastOp'.op \in {"mermaid", "auto"} /\ lastOp'.status = 0) =>
          outbox' = NoSend]_vars

\* a REST mutation reached an open connection while the other one, already
\* closing, got nothing
C3_Witness ==
  /\ lastOp.op \in RestMutations /\ lastOp.status = 200
  /\ \E c, d \in Conns :
       /\ Open(c)
       /\ outbox[c] = << [type |-> "scene:update", payload |-> currentScene] >>
       /\ readyState[d] = "CLOSING" /\ outbox[d] = << >>

\* the scene is an object that holds an element list
HasList(scene) ==
  ~IsNullish(scene) /\ Has(scene, "elements") /\ IsArray(scene.elements)

\* the request answers 200 and leaves the previous list followed by the
\* elements r compiled from it
Appended(r) ==
  (r.ok /\ HasList(currentScene)) =>
    /\ lastOp'.status = 200
    /\ lastOp'.elementsAdded = Len(r.els)
    /\ currentScene'.elements = Arr(currentScene.elements.items \o r.els)

\* C4: a draw, mermaid or auto request with append true or omitted, handled
\* on a scene that holds an element list, sets the list to the previous
\* list followed by the elements compiled from the request, in their
\* compiled order: no existing element is dropped, duplicated or moved.
C4_AppendConcat ==
  [][/\ \A body \in DrawBodies :
          (/\ IsArray(Get(body, "elements", Undefined))
           /\ AppendOf(body)
           /\ DrawStep(body)) =>
            Appended(convertShapesToElements(body.elements.items,
                                             idsInExistence))
     /\ \A body \in AutoBodies :
          (/\ IsArray(Get(body, "input", Undefined))
           /\ AppendOf(body)
           /\ AutoStep(body)) =>
            Appended(convertShapesToElements(body.input.items,
                                             idsInExistence))
     /\ \A i \in 1..MaxPending, ext \in ExtOutcomes :
          (ResumeStep(i, ext) /\ AppendOf(pending[i].body)) =>
            Appended(convertMermaidToElements(pending[i].definition, ext,
                                              idsInExistence))]_vars

\* an append of one compiled line onto a scene that held the pushed element
C4_Witness ==
  /\ lastOp.op \in {"draw", "auto"} /\ lastOp.status = 200
  /\ lastOp.elementsAdded = 1 /\ lastOp.totalElements = 2
  /\ currentScene.elements.items[1] = PushedElement
  /\ currentScene.elements.items[2].id = "l"

\* the requests that wait for their conversion, in arrival order
Waiting(p) ==
  [k \in 1..Len(p) |-> [op |-> p[k].op, body |-> p[k].body,
                        definition |-> p[k].definition]]

\* the step applied a mutation that arrived in this very step
AppliedOnArrival ==
  \/ lastOp'.op \in {"draw", "auto", "clear", "scene"} /\ lastOp'.status = 200
  \/ lastOp'.op = "message" /\ lastOp'.stored

\* the step applied a request whose conversion settled
AppliedOnSettle ==
  lastOp'.op \in {"mermaid:done", "auto:done"} /\ lastOp'.status = 200

\* C5 as the specification states it: mutations take effect strictly in
\* the order the server received them, mermaid and auto requests that await
\* the converter included, so no mutation is applied while a request that
\* arrived before it has yet to be applied.
C5_StrictArrivalOrder ==
  [][/\ AppliedOnArrival => pending = << >>
     /\ AppliedOnSettle => pending' = Tail(pending)]_vars

\* C5 as the code has it: a mutation handled without suspension (draw, auto
\* with a shape list, clear, replace, a pushed update) is applied and
\* broadcast in the step in which it arrives, whatever is suspended at that
\* moment; a mermaid request or an auto request with text changes nothing
\* and sends nothing when it arrives, and is applied and broadcast when its
\* conversion settles, on the scene as it is then.
C5_AppliedOnArrivalOrSettle ==
  [][/\ AppliedOnArrival =>
          /\ Waiting(pending') = Waiting(pending)
          /\ \A c \in Conns :
               outbox'[c] =
                 IF Open(c) /\ ~(lastOp'.op = "message" /\ lastOp'.conn = c)
                   THEN <<sceneUpdate(currentScene')>> ELSE << >>
     /\ \A body \in MermaidBodies :
          (IsString(Get(body, "definition", Undefined)) /\ MermaidStep(body)) =>
            /\ currentScene' = currentScene /\ outbox' = NoSend
            /\ Len(pending') = Len(pending) + 1
            /\ pending'[Len(pending')].body = body
     /\ \A body \in AutoBodies :
          (IsString(Get(body, "input", Undefined)) /\ AutoStep(body)) =>
            /\ currentScene' = currentScene /\ outbox' = NoSend
            /\ Len(pending') = Len(pending) + 1
            /\ pending'[Len(pending')].body = body
     /\ AppliedOnSettle =>
          /\ \E i \in 1..Len(pending) :
               /\ pending' = Remove(pending, i)
               /\ lastOp'.op = pending[i].op \o ":done"
          /\ \A c \in Conns :
               outbox'[c] =
                 IF Open(c) THEN <<sceneUpdate(currentScene')>> ELSE << >>]_vars

\* a clear was applied and broadcast while a request that arrived before it
\* was still waiting for its conversion
C5_Witness ==
  /\ lastOp.op = "clear" /\ Len(pending) = 1
  /\ \E c \in Conns : Open(c) /\ outbox[c] = <<sceneUpdate(currentScene)>>

\* C6: a clear, from whatever state, leaves the scene with an empty element
\* list and sends every open connection one scene:update whose payload
\* carries an empty element list; an export that directly follows the clear
\* returns an empty element list.
C6_ClearThenExport ==
  [][/\ lastOp'.op = "clear" =>
          /\ HasList(currentScene') /\ currentScene'.elements = Arr(<< >>)
          /\ \A c \in Conns :
               IF Open(c)
                 THEN /\ Len(outbox'[c]) = 1
                      /\ outbox'[c][1].type = "scene:update"
                      /\ HasList(PayloadOf(outbox'[c][1]))
                      /\ PayloadOf(outbox'[c][1]).elements = Arr(<< >>)
                 ELSE outbox'[c] = << >>
     /\ (lastOp.op = "clear" /\ lastOp'.op = "export") =>
          /\ lastOp'.status = 200
          /\ HasList(lastOp'.scene) /\ lastOp'.scene.elements = Arr(<< >>)]_vars

\* a clear has emptied the scene and both connections, open, were told so
C6_Witness ==
  /\ lastOp.op = "clear"
  /\ currentScene.elements = Arr(<< >>)
  /\ \A c \in Conns :
       Open(c) /\ outbox[c] = << [type |-> "scene:update",
                                  payload |-> currentScene] >>

ViewOf(scene) ==
  IF ~IsNullish(scene) /\ Has(scene, "appState") THEN scene.appState
  ELSE Undefined

ViewCleared(scene) == ViewOf(scene) \in {Undefined, EmptyObject}

\* a request that replaces with the elements r compiled from it, as the
\* specification states it: the list is set and the view state cleared
ReplacedAndCleared(r) ==
  (r.ok /\ ~IsNullish(currentScene)) =>
    /\ lastOp'.status = 200
    /\ currentScene'.elements = Arr(r.els)
    /\ ViewCleared(currentScene')

\* the same as the code has it: the list is set and the view state stays
ReplacedKeepingView(r) ==
  (r.ok /\ ~IsNullish(currentScene)) =>
    /\ lastOp'.status = 200
    /\ HasList(currentScene') /\ currentScene'.elements = Arr(r.els)
    /\ ViewOf(currentScene') = ViewOf(currentScene)

\* C7 as the specification states it: every replacing mutation (POST
\* /api/scene, or draw, mermaid or auto with append=false) sets the element
\* list to exactly the supplied or compiled elements and sets the view state
\* to the supplied one, or clears the stored view state when none is
\* supplied.
C7_ReplaceSetsOrClearsView ==
  [][/\ \A body \in SceneBodies :
          (IsArray(Get(body, "elements", Undefined)) /\ PostSceneStep(body)) =>
            /\ currentScene'.elements = body.elements
            /\ IF Has(body, "appState")
                 THEN ViewOf(currentScene') = body.appState
                 ELSE ViewCleared(currentScene')
     /\ \A body \in DrawBodies :
          (/\ IsArray(Get(body, "elements", Undefined))
           /\ ~AppendOf(body)
           /\ DrawStep(body)) =>
            ReplacedAndCleared(convertShapesToElements(body.elements.items,
                                                       idsInExistence))
     /\ \A body \in AutoBodies :
          (/\ IsArray(Get(body, "input", Undefined))
           /\ ~AppendOf(body)
           /\ AutoStep(body)) =>
            ReplacedAndCleared(convertShapesToElements(body.input.items,
                                                       idsInExistence))
     /\ \A i \in 1..MaxPending, ext \in ExtOutcomes :
          (ResumeStep(i, ext) /\ ~AppendOf(pending[i].body)) =>
            ReplacedAndCleared(
              convertMermaidToElements(pending[i].definition, ext,
                                       idsInExistence))]_vars

\* C7 as the code has it: POST /api/scene with a JSON body sets the element
\* list to the supplied elements, or to an empty list when none are
\* supplied, and the view state to the supplied one, or to an empty view
\* state when none is supplied; a draw, mermaid or auto request with
\* append=false, handled on a scene that is an object, sets the element
\* list to exactly the compiled elements and leaves the stored view state
\* as it was.
C7_ReplaceKeepsViewOnDraw ==
  [][/\ \A body \in SceneBodies :
          (~IsNullish(body) /\ PostSceneStep(body)) =>
            /\ currentScene'.elements =
                 IF Has(body, "elements") /\ ~IsNullish(body.elements)
                   THEN body.elements ELSE Arr(<< >>)
            /\ ViewOf(currentScene') =
                 IF Has(body, "appState") /\ ~IsNullish(body.appState)
                   THEN body.appState ELSE EmptyObject
     /\ \A body \in DrawBodies :
          (/\ IsArray(Get(body, "elements", Undefined))
           /\ ~AppendOf(body)
           /\ DrawStep(body)) =>
            ReplacedKeepingView(convertShapesToElements(body.elements.items,
                                                        idsInExistence))
     /\ \A body \in AutoBodies :
          (/\ IsArray(Get(body, "input", Undefined))
           /\ ~AppendOf(body)
           /\ AutoStep(body)) =>
            ReplacedKeepingView(convertShapesToElements(body.input.items,
                                                        idsInExistence))
     /\ \A i \in 1..MaxPending, ext \in ExtOutcomes :
          (ResumeStep(i, ext) /\ ~AppendOf(pending[i].body)) =>
            ReplacedKeepingView(
              convertMermaidToElements(pending[i].definition, ext,
                                       idsInExistence))]_vars

\* a draw with append=false has replaced the pushed element by the compiled
\* rectangle and its label, and the pushed view state is still stored
C7_Witness ==
  /\ lastOp.op = "draw" /\ lastOp.status = 200
  /\ lastOp.elementsAdded = 2 /\ lastOp.totalElements = 2
  /\ currentScene.elements.items[1].id = "a"
  /\ ViewOf(currentScene) = AppStateZ

\* the request is answered 400 with an error body, the scene is as it was
\* and no connection is sent anything
Rejected ==
  /\ lastOp'.status = 400 /\ Has(lastOp', "error")
  /\ currentScene' = currentScene
  /\ outbox' = NoSend

MergeThrows(append) ==
  IsNullish(currentScene) \/ (append /\ ~HasList(currentScene))

\* the request is answered 500 with an error body, the scene is as it was
\* and no connection is sent anything
Failed ==
  /\ lastOp'.status = 500 /\ Has(lastOp', "error")
  /\ currentScene' = currentScene
  /\ outbox' = NoSend

\* C9: a draw, mermaid, auto or replace request that throws at any step
\* after validation is answered 500 with an error body, and the scene is
\* exactly what it was before the request: no partly merged list is stored
\* and nothing is broadcast.
C9_AllOrNothing ==
  [][/\ \A body \in DrawBodies :
          (/\ IsArray(Get(body, "elements", Undefined))
           /\ DrawStep(body)
           /\ \/ ~convertShapesToElements(body.elements.items,
                                          idsInExistence).ok
              \/ MergeThrows(AppendOf(body))) =>
            Failed
     /\ \A body \in AutoBodies :
          (/\ IsArray(Get(body, "input", Undefined))
           /\ AutoStep(body)
           /\ \/ ~convertShapesToElements(body.input.items,
                                          idsInExistence).ok
              \/ MergeThrows(AppendOf(body))) =>
            Failed
     /\ \A i \in 1..MaxPending, ext \in ExtOutcomes :
          (ResumeStep(i, ext) /\ MergeThrows(AppendOf(pending[i].body))) =>
            Failed
     /\ \A body \in SceneBodies :
          (IsNullish(body) /\ PostSceneStep(body)) => Failed
     /\ (lastOp'.op \in RestMutations /\ lastOp'.status = 500) =>
          (currentScene' = currentScene /\ outbox' = NoSend)]_vars

\* a draw whose second descriptor is null failed after its first one had
\* compiled, on a scene that held an element, with a connection open
C9_Witness ==
  /\ lastOp.op = "draw" /\ lastOp.status = 500
  /\ HasList(currentScene) /\ currentScene.elements.items = <<PushedElement>>
  /\ \E c \in Conns : Open(c)
  /\ outbox = NoSend

\* C10: an inbound frame that is not valid JSON, or whose type is not
\* scene:update, is dropped: the scene is unchanged, nothing is broadcast,
\* and the connection stays registered and open, so that it takes part in
\* later broadcasts; only the close event of its transport removes a
\* connection from the set.
C10_DroppedMessages ==
  [][/\ \A c \in Conns, data \in WsData :
          (/\ WsMessageStep(c, data)
           /\ \/ ~data.valid
              \/ IsNullish(data.value)
              \/ Get(data.value, "type", "") # "scene:update") =>
            /\ currentScene' = currentScene
            /\ outbox' = NoSend
            /\ c \in clients' /\ readyState'[c] = "OPEN"
     /\ \A c \in clients \ clients' :
          lastOp'.op = "close" /\ lastOp'.conn = c]_vars

\* a frame was dropped and its connection is still registered and open
C10_Witness ==
  /\ lastOp.op = "message" /\ ~lastOp.stored
  /\ Open(lastOp.conn)
  /\ HasList(currentScene) /\ Len(currentScene.elements.items) = 1
  /\ outbox = NoSend

\* C11: GET /api/scene returns the stored scene, elements and view state,
\* as it is; GET /api/health, on a scene that holds an element list,
\* reports clients = the size of the connection set and elements = the
\* length of the list; neither changes the scene or the connection set nor
\* sends a message to any connection.
C11_ReadOnly ==
  [][/\ lastOp'.op = "export" =>
          /\ lastOp'.status = 200 /\ lastOp'.scene = currentScene
          /\ currentScene' = currentScene /\ clients' = clients
          /\ readyState' = readyState /\ outbox' = NoSend
     /\ lastOp'.op = "health" =>
          /\ currentScene' = currentScene /\ clients' = clients
          /\ readyState' = readyState /\ outbox' = NoSend
          /\ HasList(currentScene) =>
               /\ lastOp'.status = 200
               /\ lastOp'.clients = Cardinality(clients)
               /\ lastOp'.elements = Len(currentScene.elements.items)]_vars

\* an export returned a scene of two elements with its view state while a
\* connection was open, and nothing was sent
C11_Witness ==
  /\ lastOp.op = "export" /\ lastOp.scene = currentScene
  /\ HasList(currentScene) /\ Len(currentScene.elements.items) = 2
  /\ ViewOf(currentScene) = AppStateZ
  /\ \E c \in Conns : Open(c)
  /\ outbox = NoSend

\* ---- claims about the shape compiler
\* the compiler has returned the elements of the list it was given
Compiled == job.kind = "shapes" /\ result # NoJob /\ result.ok

KnownKind(d) == d.type \in ShapeKinds

\* the descriptor carries a label and is of a kind that can hold one
Labelled(d) ==
  /\ d.type \in {"rectangle", "ellipse", "diamond", "arrow"}
  /\ Has(d, "label") /\ d.label # ""

\* the number of elements a descriptor stands for
Emitted(d) == IF ~KnownKind(d) THEN 0 ELSE IF Labelled(d) THEN 2 ELSE 1

RECURSIVE EmittedBefore(_, _)
EmittedBefore(shapes, i) ==
  IF i <= 1 THEN 0
  ELSE EmittedBefore(shapes, i - 1) + Emitted(shapes[i - 1])

ExplicitId(d) == Has(d, "id") /\ d.id # ""

\* C12: every element the shape compiler returns has a non-empty id, the
\* ids of the returned list are pairwise distinct, and a descriptor's
\* explicit id is the id of the element compiled from it.
C12_IdsUniqueAndExplicitKept ==
  Compiled =>
    /\ \A k \in 1..Len(result.els) : result.els[k].id # ""
    /\ \A k, m \in 1..Len(result.els) :
         k # m => result.els[k].id # result.els[m].id
    /\ \A i \in 1..Len(job.shapes) :
         (KnownKind(job.shapes[i]) /\ ExplicitId(job.shapes[i])) =>
           result.els[EmittedBefore(job.shapes, i) + 1].id = job.shapes[i].id

\* C13: element ids are unique within the scene: after any sequence of
\* draw, mermaid, auto, clear and replace requests no two elements of the
\* stored scene have the same id.
C13_SceneIdsUnique ==
  HasList(currentScene) =>
    \A k, m \in 1..Len(currentScene.elements.items) :
      k # m => currentScene.elements.items[k].id
               # currentScene.elements.items[m].id

\* C14: a descriptor with a (non-empty) label on a rectangle, ellipse,
\* diamond or arrow compiles to exactly two consecutive elements: the
\* container, then a text element whose containerId is the container's id
\* and whose id is the one entry of the container's bound-element list; a
\* descriptor of one of the six kinds without a label, or of kind text or
\* line, compiles to exactly one element, with no bound text.
C14_LabelMakesBoundText ==
  Compiled =>
    /\ Len(result.els) = EmittedBefore(job.shapes, Len(job.shapes) + 1)
    /\ \A i \in 1..Len(job.shapes) :
         LET d == job.shapes[i]
             p == EmittedBefore(job.shapes, i) + 1
         IN /\ Labelled(d) =>
                 /\ result.els[p].type = d.type
                 /\ result.els[p + 1].type = "text"
                 /\ result.els[p + 1].text = d.label
                 /\ result.els[p + 1].containerId = result.els[p].id
                 /\ result.els[p].boundElements = <<result.els[p + 1].id>>
            /\ (KnownKind(d) /\ ~Labelled(d)) =>
                 /\ result.els[p].type = d.type
                 /\ result.els[p].boundElements = << >>
                 /\ d.type = "text" => result.els[p].containerId = NoId

\* a labelled arrow gave the arrow and its text, and a labelled line after
\* it gave the line alone
C14_Witness ==
  /\ Compiled
  /\ job.shapes = << Descriptor("arrow", "L", "a"),
                     Descriptor("line", "L", Absent) >>
  /\ Len(result.els) = 3
  /\ result.els[2].containerId = "a"
  /\ result.els[3].type = "line"

\* the descriptors of a kind the compiler knows, in their order
KnownOnly(shapes) == SelectSeq(shapes, KnownKind)

ExtFailures == {e \in ExtOutcomes : e.kind # "elements"}

\* C16: when the external converter is unavailable, raises an error or
\* returns no element list, the diagram compiler returns exactly what the
\* local parse, layout and shape pipeline makes of the same text, and the
\* caller of /api/draw/mermaid (or /api/auto) is answered 200 with those
\* elements merged, provided the merge itself can be done.
C16_ConverterFailureFallsBack ==
  [][\A i \in 1..MaxPending, ext \in ExtFailures :
       ResumeStep(i, ext) =>
         LET local == parseBasicFlowchart(pending[i].definition,
                                          idsInExistence)
             append == AppendOf(pending[i].body)
         IN /\ local.ok
            /\ ~MergeThrows(append) =>
                 /\ lastOp'.status = 200
                 /\ lastOp'.elementsAdded = Len(local.els)
                 /\ currentScene'.elements =
                      Arr((IF append THEN currentScene.elements.items
                           ELSE << >>) \o local.els)]_vars

\* a mermaid request was answered 200 with the ellipse and the bound text
\* that the local pipeline makes of A(x)
C16_Witness ==
  /\ lastOp.op = "mermaid:done" /\ lastOp.status = 200
  /\ lastOp.elementsAdded = 2
  /\ currentScene.elements.items[1].id = "A"
  /\ currentScene.elements.items[1].type = "ellipse"
  /\ currentScene.elements.items[2].containerId = "A"

\* the layout of the text has been computed
LaidOut == job.kind = "text" /\ result # NoJob /\ Has(result, "levels")

Graph == parseGraph(job.lines)

NodeIdsOf(g) == {g.nodes[k].id : k \in 1..Len(g.nodes)}

\* C17: level computation terminates on every parsed graph, with cycles and
\* self-loops as well: every node is assigned a level, the level is between
\* 0 and the number of nodes, and within one call of the loop the recursion
\* goes into no node twice, so never into one on the active path.
C17_LevelsAssignedAndBounded ==
  LaidOut =>
    /\ DOMAIN result.levels = NodeIdsOf(Graph)
    /\ \A id \in NodeIdsOf(Graph) :
         result.levels[id] \in 0..Len(Graph.nodes)
    /\ Len(result.traces) = Len(Graph.nodes)
    /\ \A c \in 1..Len(result.traces) :
         \A k, n \in 1..Len(result.traces[c]) :
           k # n => result.traces[c][k] # result.traces[c][n]

\* the levels of a cycle through the three nodes
C17_Witness ==
  /\ LaidOut
  /\ job.lines = << Edge("A", "B"), Edge("B", "C"), Edge("C", "A") >>
  /\ result.levels["A"] = 3 /\ result.levels["B"] = 1
  /\ result.levels["C"] = 2
  /\ result.traces = << <<"A", "C", "B">>, << >>, << >> >>

\* the nodes with an edge into id, and the nodes reached from a set of nodes
\* in at most n steps of at least one edge
ParentSet(g, id) ==
  {g.edges[k].from : k \in {j \in 1..Len(g.edges) : g.edges[j].to = id}}

Succ(g, S) ==
  {g.edges[k].to : k \in {j \in 1..Len(g.edges) : g.edges[j].from \in S}}

RECURSIVE Reach(_, _, _)
Reach(g, S, n) ==
  IF n <= 1 THEN Succ(g, S)
  ELSE Succ(g, S) \cup Reach(g, Succ(g, S), n - 1)

Acyclic(g) ==
  \A id \in NodeIdsOf(g) : id \notin Reach(g, {id}, Len(g.nodes))

Largest(S) == CHOOSE a \in S : \A b \in S : a >= b

\* the length of the longest path from a node without parents to id, in an
\* acyclic graph
RECURSIVE Depth(_, _)
Depth(g, id) ==
  IF ParentSet(g, id) = {} THEN 0
  ELSE 1 + Largest({Depth(g, p) : p \in ParentSet(g, id)})

Horizontal ==
  /\ Len(job.lines) > 0 /\ job.lines[1].kind = "header"
  /\ job.lines[1].dir \in {"LR", "RL"}

\* the coordinate that grows with the level
Along(pos) == IF Horizontal THEN pos.x ELSE pos.y

\* C18: in an acyclic parsed graph, whatever the order the nodes were
\* declared in, a node without incoming edge has level 0 and any other node
\* has 1 + the largest level of its parents, which is its longest-path
\* distance from a root; so along every edge u->v the level grows strictly
\* and v is placed strictly further along the level axis than u.
C18_LevelIsLongestPath ==
  (LaidOut /\ Acyclic(Graph)) =>
    /\ \A id \in NodeIdsOf(Graph) :
         /\ result.levels[id] =
              IF ParentSet(Graph, id) = {} THEN 0
              ELSE 1 + Largest({result.levels[p] : p \in ParentSet(Graph, id)})
         /\ result.levels[id] = Depth(Graph, id)
    /\ \A k \in 1..Len(Graph.edges) :
         LET u == Graph.edges[k].from
             v == Graph.edges[k].to
         IN /\ result.levels[v] > result.levels[u]
            /\ Along(result.positions[v]) > Along(result.positions[u])

\* C -> B, A -> B, A -> C: declared C, B, A; A is the root, C has level 1 and
\* B, with parents C and A, level 2, placed below both.
C18_Witness ==
  /\ LaidOut /\ Acyclic(Graph)
  /\ job.lines = << Edge("C", "B"), Edge("A", "B"), Edge("A", "C") >>
  /\ result.levels["A"] = 0 /\ result.levels["C"] = 1
  /\ result.levels["B"] = 2
  /\ result.positions["B"].y > result.positions["C"].y
  /\ result.positions["C"].y > result.positions["A"].y

\* the rank of the k-th declared node among the nodes of its level, in
\* first-seen order, counted from 0
RankInLevel(k) ==
  Cardinality({j \in 1..(k - 1) :
     result.levels[Graph.nodes[j].id] = result.levels[Graph.nodes[k].id]})

\* C19: a node of level L and rank i among the nodes of level L is placed at
\* (100 + 250*L, 100 + 150*i) under an LR or RL header and at
\* (100 + 250*i, 100 + 150*L) under any other header or none, both in the
\* position map and in the descriptor of the node; so the horizontal chart
\* made of A-->B alone has A left of B at the same height.
C19_GridPlacement ==
  LaidOut =>
    /\ \A k \in 1..Len(Graph.nodes) :
         LET id == Graph.nodes[k].id
             L == result.levels[id]
             i == RankInLevel(k)
             at == IF Horizontal
                     THEN [x |-> 100 + 250 * L, y |-> 100 + 150 * i]
                     ELSE [x |-> 100 + 250 * i, y |-> 100 + 150 * L]
         IN /\ result.positions[id] = at
            /\ result.descs[k].id = id
            /\ result.descs[k].x = at.x /\ result.descs[k].y = at.y
    /\ (/\ Horizontal
        /\ Len(Graph.nodes) = 2
        /\ Graph.edges = << [from |-> "A", to |-> "B"] >>) =>
         /\ result.positions["A"].x < result.positions["B"].x
         /\ result.positions["A"].y = result.positions["B"].y

\* graph RL with A --> B and A --> C: B and C share level 1, C second in it.
C19_Witness ==
  /\ LaidOut
  /\ job.lines = << [kind |-> "header", dir |-> "RL"],
                    Edge("A", "B"), Edge("A", "C") >>
  /\ result.positions["A"] = [x |-> 100, y |-> 100]
  /\ result.positions["B"] = [x |-> 350, y |-> 100]
  /\ result.positions["C"] = [x |-> 350, y |-> 250]

\* the local pipeline has compiled a definition that has lines
LocalPipeline ==
  /\ job.kind = "text" /\ result # NoJob /\ Has(result, "ext")
  /\ result.ext # "elements" /\ Len(job.lines) > 0

LabelledEdge(e) == Has(e, "label") /\ e.label # ""

\* the labelled edges among the first n edges of g
LabelledUpTo(g, n) ==
  Cardinality({j \in 1..n : LabelledEdge(g.edges[j])})

\* C20: for a parsed graph of N nodes and E edges, K of them with a
\* non-empty label, the local pipeline emits exactly 2N + E + K elements:
\* for each node in declaration order its shape and then its bound text,
\* then for each edge in edge order its arrow, followed by the arrow's bound
\* text when the edge is labelled; three nodes and two unlabelled edges
\* give 8 elements.
C20_ElementCountAndOrder ==
  LocalPipeline =>
    LET g == Graph
        N == Len(g.nodes)
        E == Len(g.edges)
        K == LabelledUpTo(g, E)
        els == result.els
    IN /\ result.ok
       /\ Len(els) = 2 * N + E + K
       /\ \A k \in 1..N :
            /\ els[2 * k - 1].id = g.nodes[k].id
            /\ els[2 * k - 1].type = g.nodes[k].shape
            /\ els[2 * k].type = "text"
            /\ els[2 * k].containerId = g.nodes[k].id
            /\ els[2 * k].text = g.nodes[k].label
       /\ \A j \in 1..E :
            LET at == 2 * N + j + LabelledUpTo(g, j - 1)
            IN /\ els[at].type = "arrow"
               /\ els[at].startBinding = g.edges[j].from
               /\ els[at].endBinding = g.edges[j].to
               /\ LabelledEdge(g.edges[j]) =>
                    /\ els[at + 1].type = "text"
                    /\ els[at + 1].containerId = els[at].id
                    /\ els[at + 1].text = g.edges[j].label
       /\ (N = 3 /\ E = 2 /\ K = 0) => Len(els) = 8

\* A --> B, B --> C and nothing else, the converter unavailable: A, its
\* text, B, its text, C, its text, then the two arrows.
C20_Witness ==
  /\ LocalPipeline
  /\ job.lines = << Edge("A", "B"), Edge("B", "C") >>
  /\ Len(result.els) = 8
  /\ result.els[1].id = "A" /\ result.els[5].id = "C"
  /\ result.els[7].type = "arrow" /\ result.els[8].type = "arrow"
  /\ result.els[8].startBinding = "B"

\* a 200 response reports the number of elements r compiled and the length
\* of the list the step leaves, which is that number on top of the list
\* the step found (append) or that number alone (replace)
Reported(r, append) ==
  lastOp'.status = 200 =>
    /\ lastOp'.elementsAdded = Len(r.els)
    /\ HasList(currentScene')
    /\ lastOp'.totalElements = Len(currentScene'.elements.items)
    /\ lastOp'.totalElements =
         IF append
           THEN Len(currentScene.elements.items) + lastOp'.elementsAdded
           ELSE lastOp'.elementsAdded

\* C21: every successful draw, mermaid or auto response reports
\* elementsAdded equal to the number of elements compiled from the request
\* and totalElements equal to the length of the stored list right after the
\* request's mutation: the length the mutation found plus elementsAdded on
\* append, elementsAdded on replace.  For mermaid and auto text the mutation
\* is the step in which the converter settles, whatever was applied while
\* the request was waiting.
C21_ResponseCounts ==
  [][/\ \A body \in DrawBodies :
          (/\ IsArray(Get(body, "elements", Undefined))
           /\ DrawStep(body)) =>
            Reported(convertShapesToElements(body.elements.items,
                                             idsInExistence),
                     AppendOf(body))
     /\ \A body \in AutoBodies :
          (/\ IsArray(Get(body, "input", Undefined))
           /\ AutoStep(body)) =>
            Reported(convertShapesToElements(body.input.items,
                                             idsInExistence),
                     AppendOf(body))
     /\ \A i \in 1..MaxPending, ext \in ExtOutcomes :
          ResumeStep(i, ext) =>
            Reported(convertMermaidToElements(pending[i].definition, ext,
                                              idsInExistence),
                     AppendOf(pending[i].body))]_vars

\* a mermaid request whose converter returned one element answered with 1
\* added and 2 in all, on top of the element a connection had pushed
C21_Witness ==
  /\ lastOp.op = "mermaid:done" /\ lastOp.status = 200
  /\ lastOp.elementsAdded = 1 /\ lastOp.totalElements = 2
  /\ currentScene.elements.items = <<PushedElement, ExtElement>>

Segment(d) == d.type \in {"arrow", "line"}

\* C22: an arrow or line descriptor without an explicit point list compiles
\* to an element with exactly two points, (0,0) and (width, height), where
\* width and height are the element's own width and height after
\* defaulting; an explicit point list is used unchanged.
C22_DefaultPointsSpanElement ==
  Compiled =>
    \A i \in 1..Len(job.shapes) :
      LET d == job.shapes[i]
          el == result.els[EmittedBefore(job.shapes, i) + 1]
      IN Segment(d) =>
           el.points = IF Has(d, "points") THEN d.points
                       ELSE << <<0, 0>>, <<el.width, el.height>> >>

\* ---- claims about the flowchart parser
\* the lines after the header
BodyLines ==
  IF job.lines[1].kind = "header" THEN Tail(job.lines) ELSE job.lines

\* the node references of the lines s, in reading order
RECURSIVE Mentions(_)
Mentions(s) ==
  IF s = << >> THEN << >>
  ELSE (CASE Head(s).kind = "edge" -> << Head(s).from, Head(s).to >>
          [] Head(s).kind = "node" -> << Head(s).ref >>
          [] OTHER -> << >>) \o Mentions(Tail(s))

\* the ids mentioned, each once, in the order of their first mention
RECURSIVE FirstSeen(_, _)
FirstSeen(m, seen) ==
  IF m = << >> THEN << >>
  ELSE IF Head(m).id \in seen THEN FirstSeen(Tail(m), seen)
  ELSE << Head(m) >> \o FirstSeen(Tail(m), seen \cup {Head(m).id})

\* the text between the brackets of a reference, "" when it has none
Bracket(r) ==
  IF Has(r, "rect") THEN r.rect
  ELSE IF Has(r, "round") THEN r.round
  ELSE IF Has(r, "diamond") THEN r.diamond ELSE ""

Bare(r) == ~Has(r, "rect") /\ ~Has(r, "round") /\ ~Has(r, "diamond")

IsEdgeLine(line) == line.kind = "edge"

\* C23: the first mention of a node id, as an edge endpoint or as a
\* declaration, fixes the node for the whole parse: the nodes are the ids
\* in the order of their first mention, each with the bracket text of that
\* mention as its label (the id when there is none), later mentions
\* changing nothing; a bare first mention gives a rectangle labelled with
\* the id; every edge line adds exactly one edge, and every id mentioned is
\* a node at the end.
C23_FirstMentionWins ==
  LaidOut =>
    LET firsts == FirstSeen(Mentions(BodyLines), {})
        edgeLines == SelectSeq(BodyLines, IsEdgeLine)
        N == Len(firsts)
    IN /\ Len(result.descs) = N + Len(edgeLines)
       /\ \A k \in 1..N :
            /\ result.descs[k].id = firsts[k].id
            /\ result.descs[k].label =
                 IF Bracket(firsts[k]) # "" THEN Bracket(firsts[k])
                 ELSE firsts[k].id
            /\ Bare(firsts[k]) => result.descs[k].type = "rectangle"
            /\ Has(firsts[k], "rect") => result.descs[k].type = "rectangle"
            /\ (Has(firsts[k], "round") /\ firsts[k].round # "") =>
                 result.descs[k].type = "ellipse"
            /\ (Has(firsts[k], "diamond") /\ firsts[k].diamond # "") =>
                 result.descs[k].type = "diamond"
       /\ \A j \in 1..Len(edgeLines) :
            /\ result.descs[N + j].type = "arrow"
            /\ result.descs[N + j].startBinding = edgeLines[j].from.id
            /\ result.descs[N + j].endBinding = edgeLines[j].to.id

\* A --> B, then A(r), then A{d} --> B[]: A and B stay the rectangles of
\* their first, bare mention, and there are two edges.
C23_Witness ==
  /\ LaidOut
  /\ job.lines = << Edge("A", "B"),
                    [kind |-> "node", ref |-> [id |-> "A", round |-> "r"]],
                    [kind |-> "edge", from |-> [id |-> "A", diamond |-> "d"],
                                      to |-> [id |-> "B", rect |-> ""]] >>
  /\ Len(result.descs) = 4
  /\ result.descs[1].type = "rectangle" /\ result.descs[1].label = "A"
  /\ result.descs[2].type = "rectangle" /\ result.descs[2].label = "B"

\* C24: the shape of a node is given by the bracket style of its first
\* mention alone: square brackets give a rectangle, parentheses an ellipse,
\* braces a diamond, whatever stands between the brackets, nothing
\* included (A(), A{}).
C24_ShapeFromBracketStyle ==
  LaidOut =>
    LET firsts == FirstSeen(Mentions(BodyLines), {})
    IN \A k \in 1..Len(firsts) :
         /\ Has(firsts[k], "rect") => result.descs[k].type = "rectangle"
         /\ Has(firsts[k], "round") => result.descs[k].type = "ellipse"
         /\ Has(firsts[k], "diamond") => result.descs[k].type = "diamond"

\* ---- claims about the arrows of the local pipeline
EdgeLines == SelectSeq(BodyLines, IsEdgeLine)

NodeCount == Len(FirstSeen(Mentions(BodyLines), {}))

\* where the arrow of the j-th edge stands in the output
ArrowAt(j) == 2 * NodeCount + j + LabelledUpTo([edges |-> EdgeLines], j - 1)

\* the shape elements of the output whose id is id
ShapesOf(id) ==
  {k \in 1..Len(result.els) :
     /\ result.els[k].id = id
     /\ result.els[k].type \in {"rectangle", "ellipse", "diamond"}}

StartOf(a) == <<a.x, a.y>>
EndOf(a) ==
  <<a.x + a.points[Len(a.points)][1], a.y + a.points[Len(a.points)][2]>>

\* the anchors of a node box
BottomCentre(b) == <<b.x + b.width \div 2, b.y + b.height>>
TopCentre(b) == <<b.x + b.width \div 2, b.y>>
RightCentre(b) == <<b.x + b.width, b.y + b.height \div 2>>
LeftCentre(b) == <<b.x, b.y + b.height \div 2>>

\* the arrow a joins the boxes u and v
Joins(a, u, v) ==
  /\ u.width = 180 /\ u.height = 80 /\ v.width = 180 /\ v.height = 80
  /\ a.points[1] = <<0, 0>>
  /\ IF Horizontal
       THEN StartOf(a) = RightCentre(u) /\ EndOf(a) = LeftCentre(v)
       ELSE StartOf(a) = BottomCentre(u) /\ EndOf(a) = TopCentre(v)

\* C25: for every parsed edge u->v the local pipeline emits exactly one
\* arrow; it starts at the bottom centre of u's box (vertical chart) or at
\* its right centre (horizontal), it ends, start plus last point, at the
\* top centre or left centre of v's box, the boxes being 180 by 80, and its
\* startBinding and endBinding are the ids of the shape elements of u and
\* v, each present once in the same output.
C25_ArrowAnchors ==
  LocalPipeline =>
    /\ Cardinality({k \in 1..Len(result.els) :
                      result.els[k].type = "arrow"}) = Len(EdgeLines)
    /\ \A j \in 1..Len(EdgeLines) :
         LET a == result.els[ArrowAt(j)]
             us == ShapesOf(EdgeLines[j].from.id)
             vs == ShapesOf(EdgeLines[j].to.id)
         IN /\ a.type = "arrow"
            /\ a.startBinding = EdgeLines[j].from.id
            /\ a.endBinding = EdgeLines[j].to.id
            /\ Cardinality(us) = 1 /\ Cardinality(vs) = 1
            /\ \A k \in us, m \in vs :
                 Joins(a, result.els[k], result.els[m])

\* graph LR with A --> B: the arrow leaves A at (280,140) and ends at B's
\* left centre (350,140).
C25_Witness ==
  /\ LocalPipeline
  /\ job.lines = << [kind |-> "header", dir |-> "LR"], Edge("A", "B") >>
  /\ result.els[5].type = "arrow"
  /\ StartOf(result.els[5]) = <<280, 140>>
  /\ EndOf(result.els[5]) = <<350, 140>>
  /\ result.els[5].startBinding = "A" /\ result.els[5].endBinding = "B"

\* C26: a self-loop edge, from and to the same node id, is laid out
\* without error as one arrow whose startBinding and endBinding are both
\* that node and whose displacement is zero: its two points coincide and
\* its width and height are 0.
C26_SelfLoopZeroLength ==
  LocalPipeline =>
    /\ result.ok
    /\ \A j \in 1..Len(EdgeLines) :
         EdgeLines[j].from.id = EdgeLines[j].to.id =>
           LET a == result.els[ArrowAt(j)]
           IN /\ a.type = "arrow"
              /\ a.startBinding = EdgeLines[j].from.id
              /\ a.endBinding = EdgeLines[j].from.id
              /\ Len(a.points) = 2 /\ a.points[1] = a.points[2]
              /\ a.width = 0 /\ a.height = 0

\* ---- claims about the client hook
\* C27: whenever the socket of a mounted hook closes, or errors and is
\* closed for it, the close handler marks the hook disconnected and
\* schedules a reconnect; a new connection attempt is eventually made, and
\* while timers fire and the server accepts, the status of a hook that
\* stays mounted eventually returns to connected after every disconnect.
C27_AutoReconnect ==
  /\ [][\A p \in Pages :
          (hook[p].mounted /\ hook'[p].last = "onclose") =>
            /\ hook'[p].status = "disconnected"
            /\ hook'[p].timer]_vars
  /\ \A p \in Pages :
       (hook[p].mounted /\ hook[p].last = "onerror") ~>
         (hook[p].last = "onclose" \/ ~hook[p].mounted)
  /\ \A p \in Pages :
       (hook[p].mounted /\ hook[p].status = "disconnected") ~>
         (hook[p].ws = "CONNECTING" \/ ~hook[p].mounted)
  /\ \A p \in Pages :
       (hook[p].mounted /\ hook[p].status = "disconnected") ~>
         (hook[p].status = "connected" \/ ~hook[p].mounted)

\* a page is connected again while it still holds a frame it received
\* through an earlier socket
C27_Witness ==
  \E p \in Pages :
    /\ hook[p].mounted /\ hook[p].status = "connected"
    /\ hook[p].last = "onopen" /\ hook[p].lastMessage = "m1"

\* ---- claims about what the connections hold
\* the last message sent to c carried the scene that is stored, and was
\* sent no earlier than the scene last changed
UpToDate(c) == sync.fresh[c]

\* C28: whenever the server has finished handling a request or a message,
\* the most recent message it sent to each open connection carries a
\* payload equal to the stored scene, unless the most recent mutation was a
\* scene:update pushed by that connection itself: no open connection is
\* left with a scene older than the store's.
C28_OpenConnectionsUpToDate ==
  \A c \in Conns : Open(c) => (UpToDate(c) \/ sync.author = c)

\* one connection pushed the scene the store now holds, which the other
\* connection was sent while the last thing sent to the pusher is older
C28_Witness ==
  /\ HasList(currentScene)
  /\ currentScene.elements = Arr(<<PushedElement>>)
  /\ \E c, d \in Conns :
       /\ Open(c) /\ Open(d) /\ c # d
       /\ sync.author = c /\ ~UpToDate(c)
       /\ UpToDate(d) /\ first[d] = "scene:init"
       /\ lastOp.op = "message" /\ lastOp.conn = c

\* C29: the stored scene is well-formed in every reachable state: after
\* any sequence of REST requests and inbound messages, a scene:update
\* without a payload or with one that is no object and a POST /api/scene
\* whose elements is no list included, the scene is an object whose
\* elements is a sequence, so that health, export and a later append never
\* fail.
C29_SceneWellFormed ==
  /\ ~IsNullish(currentScene)
  /\ Has(currentScene, "elements")
  /\ IsArray(currentScene.elements)
  /\ lastOp.op = "health" => lastOp.status = 200

\* ---- claims about a request that waits for the converter
\* C30: no update is lost across the wait for the converter: when a
\* mermaid or auto-text request with append resumes after another mutation
\* (draw, clear, replace, pushed update) changed the scene, it appends to
\* the scene as that mutation left it: with an element list there, the
\* list becomes that list followed by the compiled elements and the other
\* properties of the scene stay; nothing the other mutation wrote is
\* overwritten, also when the request fails.
C30_NoLostUpdate ==
  [][\A i \in 1..MaxPending, ext \in ExtOutcomes :
       (/\ ResumeStep(i, ext)
        /\ AppendOf(pending[i].body)
        /\ pending[i].overtaken) =>
         LET r == convertMermaidToElements(pending[i].definition, ext,
                                           idsInExistence)
         IN IF HasList(currentScene)
              THEN /\ lastOp'.status = 200
                   /\ currentScene' =
                        [currentScene EXCEPT !.elements =
                           Arr(currentScene.elements.items \o r.els)]
              ELSE /\ lastOp'.status = 500
                   /\ currentScene' = currentScene]_vars

\* a mermaid request that was waiting while a connection pushed its scene
\* added the converter's element after the pushed one, the pushed view
\* settings kept
C30_Witness ==
  /\ lastOp.op = "mermaid:done" /\ lastOp.status = 200 /\ lastOp.overtaken
  /\ currentScene.elements.items = <<PushedElement, ExtElement>>
  /\ currentScene.appState = AppStateZ

\* C31: on every connection the page opens, the first one and each
\* reconnection, the page sends no scene:update before onmessage has been
\* handed the scene:init of that connection.
C31_NoUpdateBeforeInit ==
  \A p \in AppPages : hook[p].last = "sent" => hook[p].init

\* the cleanup of the effect of the page has run
Cleaned(p) == ~hook[p].mounted /\ hook[p].last # "render"

\* the step is a call of connect by the page
Connects(p) ==
  /\ hook'[p] # hook[p]
  /\ hook'[p].last \in {"mount", "timer"}

\* no reconnect timer is due, or becomes due, or runs, once the cleanup
\* has run
QuietAfterCleanup ==
  \A p \in Pages :
    Cleaned(p) => ~hook[p].timer /\ ~hook'[p].timer /\ ~Connects(p)

\* connect never runs while the socket the page has is connecting or open,
\* so a page never has two such sockets
OneLiveSocket ==
  \A p \in Pages : Connects(p) => hook[p].ws \notin {"CONNECTING", "OPEN"}

\* C32: after the cleanup of the hook has run no reconnect timer is due or
\* gets scheduled and the hook opens no new connection; and at every moment
\* the hook has at most one socket that is connecting or open.
C32_NoReconnectAfterCleanup ==
  [][QuietAfterCleanup /\ OneLiveSocket]_vars

\* C33: for every parsed graph, cyclic or not, in either orientation, every
\* node of the node table has a position, no two nodes share a position,
\* both endpoints of every edge have a position, and the descriptors hold
\* one arrow per edge after the node descriptors, so no edge is dropped.
C33_LayoutInjective ==
  LaidOut =>
    LET g == Graph
        N == Len(g.nodes)
        E == Len(g.edges)
    IN /\ DOMAIN result.positions = NodeIdsOf(g)
       /\ \A a, b \in NodeIdsOf(g) :
            a # b => result.positions[a] # result.positions[b]
       /\ \A j \in 1..E :
            /\ g.edges[j].from \in DOMAIN result.positions
            /\ g.edges[j].to \in DOMAIN result.positions
       /\ Len(result.descs) = N + E
       /\ \A j \in 1..E :
            /\ result.descs[N + j].type = "arrow"
            /\ result.descs[N + j].startBinding = g.edges[j].from
            /\ result.descs[N + j].endBinding = g.edges[j].to

\* graph LR with A --> A, A --> B and A --> C: a cycle, and B and C share a
\* level and lie at different heights
C33_Witness ==
  /\ LaidOut
  /\ job.lines = << [kind |-> "header", dir |-> "LR"],
                    Edge("A", "A"), Edge("A", "B"), Edge("A", "C") >>
  /\ ~Acyclic(Graph)
  /\ result.levels["B"] = result.levels["C"]
  /\ result.positions["B"].x = result.positions["C"].x
  /\ result.positions["B"].y # result.positions["C"].y
  /\ Len(result.descs) = 6

====
